---------------------------- MODULE Spec2Model ----------------------------
(***************************************************************************)
(* A model of dirtcloud-server: the metadata namespace (path normaliser    *)
(* and the SQLite-backed metadata repository) and the resource lifecycle   *)
(* service (projects and instances).                                       *)
(*                                                                         *)
(* Strings of the program are sequences of one-character strings, so that  *)
(* prefixes, segments and lengths are those of the program's strings.      *)
(***************************************************************************)
EXTENDS Integers, Sequences, FiniteSets, TLC

VARIABLES
    norm,       \* the path normaliser applied to an input, and re-applied
    metadata,   \* the rows of the metadata table
    mresp,      \* what the last metadata operation was given and returned
    written,    \* history: per canonical path, the value of the last Set
                \* that no Delete of that canonical path has followed
    projects,   \* the rows of the project table
    instances,  \* the rows of the instance table
    creating,   \* the CreateInstance request in flight between its project
                \* lookup and its insert, or NoCreate
    rresp,      \* what the last project or instance operation returned
    fail,       \* the last operation run against stores whose database
                \* calls may fail: what the repositories returned, what the
                \* service returned, and the transport's answer
    validated,  \* the validators applied to a name, a spec and a status
    callers,    \* per concurrent caller of the metadata repository, the
                \* call it is in: its arguments, its locals and its result
    clock,      \* the time time.Now() returns
    token,      \* the bearer token the REST handler is configured with
    served      \* the last HTTP request the router served: its route and
                \* Authorization header, the status answered and the
                \* service operations the handler invoked

vars ==
    <<norm, metadata, mresp, written, projects, instances, creating, rresp,
      fail, validated, callers, clock, token, served>>

metaVars == <<metadata, mresp, written>>
resVars == <<projects, instances, creating, rresp>>
httpVars == <<token, served>>
restVars == <<validated, callers, clock, token, served>>

----------------------------------------------------------------------------
(* Bounds of the model.                                                    *)

\* longest surface path handed to a metadata operation
MaxPathLen == 2
\* longest input handed to the path normaliser on its own
MaxNormLen == 5
\* most rows the metadata table holds
MaxRows == 2
\* most projects the project table holds
MaxProjects == 1
\* most instances the instance table holds
MaxInstances == 1
\* most segments of an input of the path normaliser built from segments
MaxSegments == 5
\* the greatest time the clock reaches
MaxClock == 1

----------------------------------------------------------------------------
(* Strings.                                                                *)

\* The characters paths are built from: the separator, the dot, a letter,
\* and the underscore.  There is no upper-case letter, so the ASCII case
\* folding of SQLite's LIKE is the identity on these characters.
PathChars == {"/", ".", "a", "_"}

\* The byte value of a character: the order of SQLite's BINARY collation.
CharCode(c) ==
    CASE c = "%" -> 37
      [] c = "." -> 46
      [] c = "/" -> 47
      [] c = "_" -> 95
      [] c = "a" -> 97

\* All strings over PathChars of length at most n.
StringsUpTo(n) == UNION {[1..k -> PathChars] : k \in 0..n}

\* strings.HasPrefix
HasPrefix(s, pre) ==
    /\ Len(pre) <= Len(s)
    /\ SubSeq(s, 1, Len(pre)) = pre

\* Byte-wise s < t.
RECURSIVE StrLess(_, _)
StrLess(s, t) ==
    IF t = <<>> THEN FALSE
    ELSE IF s = <<>> THEN TRUE
    ELSE IF Head(s) # Head(t) THEN CharCode(Head(s)) < CharCode(Head(t))
    ELSE StrLess(Tail(s), Tail(t))

----------------------------------------------------------------------------
(* path.Clean of the Go standard library, as normalizePath calls it.       *)
(* Indices r, w and dotdot are the 0-based indices of the Go code; out is  *)
(* the written part of the output buffer, so out.w is Len(out).            *)

\* Backtracking that removes one character only, not the whole element.
CleanBacktrack_OneChar(out, w, dotdot) == SubSeq(out, 1, w)

\* The ".." case's backtracking: out.w was decremented to w; keep
\* decrementing while w > dotdot and out[w] is no separator.
RECURSIVE CleanBacktrack(_, _, _)
CleanBacktrack(out, w, dotdot) ==
    IF w > dotdot /\ out[w + 1] # "/"
    THEN CleanBacktrack(out, w - 1, dotdot)
    ELSE SubSeq(out, 1, w)

\* The index at which the segment starting at r ends.
RECURSIVE SegmentEnd(_, _)
SegmentEnd(path, r) ==
    IF r < Len(path) /\ path[r + 1] # "/" THEN SegmentEnd(path, r + 1) ELSE r

RECURSIVE CleanLoop(_, _, _, _, _)
CleanLoop(path, r, out, dotdot, rooted) ==
    LET n == Len(path) IN
    IF r >= n THEN out
    ELSE IF path[r + 1] = "/" THEN
        \* empty path element
        CleanLoop(path, r + 1, out, dotdot, rooted)
    ELSE IF path[r + 1] = "." /\ (r + 1 = n \/ path[r + 2] = "/") THEN
        \* . element
        CleanLoop(path, r + 1, out, dotdot, rooted)
    ELSE IF /\ path[r + 1] = "."
            /\ path[r + 2] = "."
            /\ (r + 2 = n \/ path[r + 3] = "/") THEN
        \* .. element: remove to last separator
        IF Len(out) > dotdot THEN
            CleanLoop(path, r + 2,
                      CleanBacktrack(out, Len(out) - 1, dotdot), dotdot, rooted)
        ELSE IF ~rooted THEN
            \* cannot backtrack, but not rooted, so append .. element
            LET out2 == (IF Len(out) > 0 THEN Append(out, "/") ELSE out)
                            \o <<".", ".">>
            IN  CleanLoop(path, r + 2, out2, Len(out2), rooted)
        ELSE
            CleanLoop(path, r + 2, out, dotdot, rooted)
    ELSE
        \* real path element: add slash if needed, copy element
        LET out1 == IF (rooted /\ Len(out) # 1) \/ (~rooted /\ Len(out) # 0)
                    THEN Append(out, "/") ELSE out
            e    == SegmentEnd(path, r)
        IN  CleanLoop(path, e, out1 \o SubSeq(path, r + 1, e), dotdot, rooted)

Clean(path) ==
    IF path = <<>> THEN <<".">>
    ELSE LET rooted == path[1] = "/"
             out    == CleanLoop(path,
                                 IF rooted THEN 1 ELSE 0,
                                 IF rooted THEN <<"/">> ELSE <<>>,
                                 IF rooted THEN 1 ELSE 0,
                                 rooted)
         IN  IF Len(out) = 0 THEN <<".">> ELSE out

\* A normaliser that only adds the leading separator and strips one
\* trailing separator, without cleaning the path.
normalizePath_TrimOnly(p) ==
    LET p1 == IF ~HasPrefix(p, <<"/">>) THEN <<"/">> \o p ELSE p
    IN  IF Len(p1) > 1 /\ p1[Len(p1)] = "/"
        THEN SubSeq(p1, 1, Len(p1) - 1) ELSE p1

\* A normaliser that only adds the leading separator.
normalizePath_PrefixOnly(p) ==
    IF ~HasPrefix(p, <<"/">>) THEN <<"/">> \o p ELSE p

normalizePath(p) ==
    LET p1      == IF ~HasPrefix(p, <<"/">>) THEN <<"/">> \o p ELSE p
        cleaned == Clean(p1)
    IN  IF cleaned = <<".">> THEN <<"/">> ELSE cleaned

----------------------------------------------------------------------------
(* Error taxonomy (domain.DirtError).  A message is the sequence of the    *)
(* parts it is formatted from; a details map is a record; NoError is the   *)
(* nil error.  An error value that is no *DirtError (a database driver's   *)
(* error, or one made by fmt.Errorf) is a record with a text field and no  *)
(* code field.                                                             *)

ErrorCodeNotFound == "NOT_FOUND"
ErrorCodeAlreadyExists == "ALREADY_EXISTS"
ErrorCodeInvalidInput == "INVALID_INPUT"
ErrorCodeForeignKeyViolation == "FOREIGN_KEY_VIOLATION"
ErrorCodeInternalError == "INTERNAL_ERROR"
ErrorCodeUnauthorized == "UNAUTHORIZED"
ErrorCodeTooManyRequests == "TOO_MANY_REQUESTS"
ErrorCodeServiceUnavailable == "SERVICE_UNAVAILABLE"

\* a nil details map
NoDetails == [nil |-> TRUE]

NewError(code, message, details) ==
    [code |-> code, message |-> message, details |-> details]

NoError == NewError("", <<>>, NoDetails)

NotFoundError(resource, identifier) ==
    NewError(ErrorCodeNotFound, <<resource, " not found">>,
             [resource |-> resource, identifier |-> identifier])

AlreadyExistsError(resource, field, value) ==
    NewError(ErrorCodeAlreadyExists,
             <<resource, " with ", field, " '", value, "' already exists">>,
             [resource |-> resource, field |-> field, value |-> value])

InvalidInputError(message, details) ==
    NewError(ErrorCodeInvalidInput, <<message>>, details)

ForeignKeyViolationError(resource, field, value) ==
    NewError(ErrorCodeForeignKeyViolation,
             <<"Referenced ", resource, " with ", field, " '", value,
               "' does not exist">>,
             [resource |-> resource, field |-> field, value |-> value])

InternalError(message) == NewError(ErrorCodeInternalError, message, NoDetails)

UnauthorizedError(message) ==
    NewError(ErrorCodeUnauthorized, message, NoDetails)

TooManyRequestsError(message) ==
    NewError(ErrorCodeTooManyRequests, message, NoDetails)

ServiceUnavailableError(message) ==
    NewError(ErrorCodeServiceUnavailable, message, NoDetails)

\* The type assertion err.(*DirtError) succeeds.
IsDirtError(err) == "code" \in DOMAIN err /\ err # NoError

IsNotFound(err) == IsDirtError(err) /\ err.code = ErrorCodeNotFound

\* err.Error()
ErrorText(err) ==
    IF "code" \in DOMAIN err THEN <<err.code, ": ">> \o err.message
    ELSE err.text

\* fmt.Errorf(prefix + "%w", cause): an error that is no *DirtError, whose
\* text is the prefix followed by the cause's text, and that wraps the cause.
Errorf(prefix, cause) ==
    [text |-> <<prefix>> \o ErrorText(cause), cause |-> cause]

----------------------------------------------------------------------------
(* The metadata repository (storage/sqlite), over the rows of the table.   *)
(* A row is [path, value]; a repository call returns the rows it leaves,   *)
(* its error, the *domain.Metadata it returns (NoMetadata for nil) and,    *)
(* for List, the paths.                                                    *)

Values == {"v1", "v2"}

NoMetadata == [path |-> <<>>, value |-> ""]

RepoResult(rows, err, meta, paths) ==
    [rows |-> rows, err |-> err, meta |-> meta, paths |-> paths]

\* INSERT OR IGNORE: a row with the same path is kept and the new one
\* dropped.
InsertOrReplace_Ignore(rows, row) ==
    IF \E r \in rows : r.path = row.path THEN rows ELSE rows \cup {row}

\* A replace that leaves the new row as the only row of the table.
InsertOrReplace_Truncate(rows, row) == {row}

\* INSERT OR REPLACE INTO metadata (path, ...): path is the table's unique
\* key, so a row with the same path is deleted before the new one is added.
InsertOrReplace(rows, row) ==
    {r \in rows : r.path # row.path} \cup {row}

\* SQLite's LIKE: % matches any run of characters, _ any one character,
\* and no escape character is given in the query.
RECURSIVE Like(_, _)
Like(pat, s) ==
    IF pat = <<>> THEN s = <<>>
    ELSE IF Head(pat) = "%" THEN
        \E k \in 0..Len(s) : Like(Tail(pat), SubSeq(s, k + 1, Len(s)))
    ELSE IF s = <<>> THEN FALSE
    ELSE IF Head(pat) = "_" THEN Like(Tail(pat), Tail(s))
    ELSE Head(pat) = Head(s) /\ Like(Tail(pat), Tail(s))

\* ORDER BY path DESC: the paths of the rows, one per row, descending.
OrderByPath_Descending(rows) ==
    LET paths == {r.path : r \in rows}
        n     == Cardinality(paths)
    IN  CHOOSE seq \in [1..n -> paths] :
            \A i, j \in 1..n : i < j => StrLess(seq[j], seq[i])

\* ORDER BY path: the paths of the rows, one per row, ascending.
RECURSIVE OrderByPath(_)
OrderByPath(rows) ==
    IF rows = {} THEN <<>>
    ELSE LET m == CHOOSE r \in rows : \A q \in rows : ~StrLess(q.path, r.path)
         IN  <<m.path>> \o OrderByPath(rows \ {m})

\* Set that stores the surface path as given.
RepoSet_RawPath(rows, metadataPath, value) ==
    LET m == [path |-> metadataPath, value |-> value]
    IN  RepoResult(InsertOrReplace(rows, m), NoError, m, <<>>)

RepoSet(rows, metadataPath, value) ==
    LET m == [path |-> normalizePath(metadataPath), value |-> value]
    IN  RepoResult(InsertOrReplace(rows, m), NoError, m, <<>>)

\* Get that looks the surface path up as given.
RepoGet_RawPath(rows, metadataPath) ==
    LET found == {r \in rows : r.path = metadataPath}
    IN  IF found = {}
        THEN RepoResult(rows, NotFoundError("metadata", metadataPath),
                        NoMetadata, <<>>)
        ELSE RepoResult(rows, NoError, CHOOSE r \in found : TRUE, <<>>)

RepoGet(rows, metadataPath) ==
    LET normalizedPath == normalizePath(metadataPath)
        found          == {r \in rows : r.path = normalizedPath}
    IN  IF found = {}
        THEN RepoResult(rows, NotFoundError("metadata", normalizedPath),
                        NoMetadata, <<>>)
        ELSE RepoResult(rows, NoError, CHOOSE r \in found : TRUE, <<>>)

\* List that matches the prefix as given, without normalising it.
RepoList_RawPrefix(rows, prefix) ==
    LET sel == IF prefix # <<>>
               THEN {r \in rows : Like(prefix \o <<"%">>, r.path)}
               ELSE rows
    IN  RepoResult(rows, NoError, NoMetadata, OrderByPath(sel))

RepoList(rows, prefix) ==
    LET sel == IF prefix # <<>>
               THEN {r \in rows : Like(normalizePath(prefix) \o <<"%">>, r.path)}
               ELSE rows
    IN  RepoResult(rows, NoError, NoMetadata, OrderByPath(sel))

\* Delete that does not first check that the entry exists.
RepoDelete_NoCheck(rows, metadataPath) ==
    RepoResult({r \in rows : r.path # normalizePath(metadataPath)}, NoError,
               NoMetadata, <<>>)

RepoDelete(rows, metadataPath) ==
    LET normalizedPath == normalizePath(metadataPath)
        got            == RepoGet(rows, metadataPath)
    IN  IF got.err # NoError
        THEN RepoResult(rows, got.err, NoMetadata, <<>>)
        ELSE RepoResult({r \in rows : r.path # normalizedPath}, NoError,
                        NoMetadata, <<>>)

----------------------------------------------------------------------------
(* The service's metadata operations: the empty path is rejected before    *)
(* the repository is called.                                               *)

SvcSetMetadata(rows, path, value) ==
    IF path = <<>>
    THEN RepoResult(rows,
                    InvalidInputError("metadata path cannot be empty", NoDetails),
                    NoMetadata, <<>>)
    ELSE RepoSet(rows, path, value)

SvcGetMetadata(rows, path) ==
    IF path = <<>>
    THEN RepoResult(rows,
                    InvalidInputError("metadata path cannot be empty", NoDetails),
                    NoMetadata, <<>>)
    ELSE RepoGet(rows, path)

SvcListMetadata(rows, prefix) == RepoList(rows, prefix)

SvcDeleteMetadata(rows, path) ==
    IF path = <<>>
    THEN RepoResult(rows,
                    InvalidInputError("metadata path cannot be empty", NoDetails),
                    NoMetadata, <<>>)
    ELSE RepoDelete(rows, path)

----------------------------------------------------------------------------
(* The normaliser on its own: an input is normalised, and the result is    *)
(* normalised again.                                                       *)

NormIdle == [pc |-> "idle", input |-> <<>>, once |-> <<>>, twice |-> <<>>]

\* The segments inputs are built from: the empty segment (a doubled or
\* trailing separator), ".", "..", and two names.
Segments == {<<>>, <<".">>, <<".", ".">>, <<"a">>, <<"_">>}

\* The segments of segs, with a separator between neighbours.
RECURSIVE JoinSegments(_)
JoinSegments(segs) ==
    IF segs = <<>> THEN <<>>
    ELSE IF Len(segs) = 1 THEN segs[1]
    ELSE segs[1] \o <<"/">> \o JoinSegments(Tail(segs))

\* Inputs built from at most MaxSegments segments, with and without a
\* leading separator.
SegmentInputs ==
    LET joined == {JoinSegments(segs) :
                     segs \in UNION {[1..k -> Segments] : k \in 0..MaxSegments}}
    IN  joined \cup {<<"/">> \o j : j \in joined}

NormInitial ==
    norm \in {[pc |-> "start", input |-> p, once |-> <<>>, twice |-> <<>>] :
                p \in StringsUpTo(MaxNormLen) \cup SegmentInputs}

Normalize ==
    /\ norm.pc = "start"
    /\ norm' = [norm EXCEPT !.pc = "once", !.once = normalizePath(norm.input)]
    /\ UNCHANGED <<restVars, fail, metaVars, resVars>>

NormalizeAgain ==
    /\ norm.pc = "once"
    /\ norm' = [norm EXCEPT !.pc = "twice", !.twice = normalizePath(norm.once)]
    /\ UNCHANGED <<restVars, fail, metaVars, resVars>>

----------------------------------------------------------------------------
(* The metadata operations, one request at a time.                         *)

SurfacePaths == StringsUpTo(MaxPathLen)

MetaResponse(op, path, value, res, before) ==
    [op |-> op, path |-> path, value |-> value, err |-> res.err,
     meta |-> res.meta, paths |-> res.paths, before |-> before]

MetaIdle ==
    [op |-> "none", path |-> <<>>, value |-> "", err |-> NoError,
     meta |-> NoMetadata, paths |-> <<>>, before |-> 0]

MetaInitial ==
    /\ metadata = {}
    /\ mresp = MetaIdle
    /\ written = {}

SetMetadata ==
    \E path \in SurfacePaths, value \in Values :
        LET res == SvcSetMetadata(metadata, path, value) IN
        /\ Cardinality(res.rows) <= MaxRows
        /\ metadata' = res.rows
        /\ mresp' = MetaResponse("Set", path, value, res, Cardinality(metadata))
        /\ written' = IF res.err = NoError
                      THEN {w \in written : w.path # normalizePath(path)}
                             \cup {[path |-> normalizePath(path), value |-> value]}
                      ELSE written
        /\ UNCHANGED <<restVars, norm, fail, resVars>>

GetMetadata ==
    \E path \in SurfacePaths :
        LET res == SvcGetMetadata(metadata, path) IN
        /\ metadata' = res.rows
        /\ mresp' = MetaResponse("Get", path, "", res, Cardinality(metadata))
        /\ UNCHANGED <<restVars, norm, fail, written, resVars>>

ListMetadata ==
    \E prefix \in SurfacePaths :
        LET res == SvcListMetadata(metadata, prefix) IN
        /\ metadata' = res.rows
        /\ mresp' = MetaResponse("List", prefix, "", res, Cardinality(metadata))
        /\ UNCHANGED <<restVars, norm, fail, written, resVars>>

DeleteMetadata ==
    \E path \in SurfacePaths :
        LET res == SvcDeleteMetadata(metadata, path) IN
        /\ metadata' = res.rows
        /\ mresp' = MetaResponse("Delete", path, "", res, Cardinality(metadata))
        /\ written' = IF res.err = NoError
                      THEN {w \in written : w.path # normalizePath(path)}
                      ELSE written
        /\ UNCHANGED <<restVars, norm, fail, resVars>>

----------------------------------------------------------------------------
(* The resource validator (service).                                       *)

MaxNameLength == 255
MaxImageLength == 255
MaxCPU == 64
MaxMemoryMB == 524288

StatusRunning == "running"
StatusStopped == "stopped"

\* The characters of the model's names that ^[a-zA-Z0-9_-]+$ accepts.
NamePatternChars == {"a", "b", "Z", "0", "_", "-"}

\* regexp.MustCompile(`^[a-zA-Z0-9_-]+$`).MatchString(name)
MatchesNamePattern(name) ==
    /\ Len(name) >= 1
    /\ \A i \in 1..Len(name) : name[i] \in NamePatternChars

\* A project name validation without the pattern check.
validateProjectName_NoPattern(name) ==
    IF name = <<>> THEN
        InvalidInputError("project name cannot be empty", NoDetails)
    ELSE IF Len(name) > MaxNameLength THEN
        InvalidInputError("project name too long",
                          [max_length |-> MaxNameLength, actual |-> Len(name)])
    ELSE NoError

validateProjectName(name) ==
    IF name = <<>> THEN
        InvalidInputError("project name cannot be empty", NoDetails)
    ELSE IF Len(name) > MaxNameLength THEN
        InvalidInputError("project name too long",
                          [max_length |-> MaxNameLength, actual |-> Len(name)])
    ELSE IF ~MatchesNamePattern(name) THEN
        InvalidInputError("project name can only contain alphanumeric characters, dashes, and underscores",
                          NoDetails)
    ELSE NoError

validateInstanceName(name) ==
    IF name = <<>> THEN
        InvalidInputError("instance name cannot be empty", NoDetails)
    ELSE IF Len(name) > MaxNameLength THEN
        InvalidInputError("instance name too long",
                          [max_length |-> MaxNameLength, actual |-> Len(name)])
    ELSE IF ~MatchesNamePattern(name) THEN
        InvalidInputError("instance name can only contain alphanumeric characters, dashes, and underscores",
                          NoDetails)
    ELSE NoError

\* A spec validation whose upper cpu limit is exclusive.
validateInstanceSpecs_ExclusiveCPU(cpu, memoryMB, image) ==
    IF cpu <= 0 THEN
        InvalidInputError("CPU must be positive", [cpu |-> cpu])
    ELSE IF cpu >= MaxCPU THEN
        InvalidInputError("CPU too high", [max_cpu |-> MaxCPU, actual |-> cpu])
    ELSE IF memoryMB <= 0 THEN
        InvalidInputError("memory must be positive", [memory_mb |-> memoryMB])
    ELSE IF memoryMB > MaxMemoryMB THEN
        InvalidInputError("memory too high",
                          [max_memory_mb |-> MaxMemoryMB, actual |-> memoryMB])
    ELSE IF image = <<>> THEN
        InvalidInputError("image cannot be empty", NoDetails)
    ELSE IF Len(image) > MaxImageLength THEN
        InvalidInputError("image name too long",
                          [max_length |-> MaxImageLength, actual |-> Len(image)])
    ELSE NoError

validateInstanceSpecs(cpu, memoryMB, image) ==
    IF cpu <= 0 THEN
        InvalidInputError("CPU must be positive", [cpu |-> cpu])
    ELSE IF cpu > MaxCPU THEN
        InvalidInputError("CPU too high", [max_cpu |-> MaxCPU, actual |-> cpu])
    ELSE IF memoryMB <= 0 THEN
        InvalidInputError("memory must be positive", [memory_mb |-> memoryMB])
    ELSE IF memoryMB > MaxMemoryMB THEN
        InvalidInputError("memory too high",
                          [max_memory_mb |-> MaxMemoryMB, actual |-> memoryMB])
    ELSE IF image = <<>> THEN
        InvalidInputError("image cannot be empty", NoDetails)
    ELSE IF Len(image) > MaxImageLength THEN
        InvalidInputError("image name too long",
                          [max_length |-> MaxImageLength, actual |-> Len(image)])
    ELSE NoError

\* A status validation that accepts every status.
validateInstanceStatus_AnyStatus(status) == NoError

validateInstanceStatus(status) ==
    IF status # StatusRunning /\ status # StatusStopped THEN
        InvalidInputError("invalid status",
                          [valid_statuses |-> <<StatusRunning, StatusStopped>>,
                           actual |-> status])
    ELSE NoError

----------------------------------------------------------------------------
(* The validators on their own: a name, a spec and a status are given, and *)
(* each validator is applied to its part.                                  *)

ValidIdle ==
    [pc |-> "idle", name |-> <<>>, cpu |-> 0, memoryMB |-> 0, image |-> <<>>,
     status |-> "", projectNameErr |-> NoError, instanceNameErr |-> NoError,
     specsErr |-> NoError, statusErr |-> NoError]

\* names: empty, valid, with a character outside the pattern, of the
\* greatest length and one longer
ValidateNames ==
    {<<>>, <<"a">>, <<"b", "-", "0">>, <<"a", " ">>,
     [i \in 1..MaxNameLength |-> "Z"], [i \in 1..(MaxNameLength + 1) |-> "Z"]}

\* values on both sides of each end of the ranges
ValidateCPUs == {-1, 0, 1, MaxCPU, MaxCPU + 1}
ValidateMemories == {0, 1, MaxMemoryMB, MaxMemoryMB + 1}
ValidateImages ==
    {<<>>, <<"x">>, [i \in 1..MaxImageLength |-> "x"],
     [i \in 1..(MaxImageLength + 1) |-> "x"]}
ValidateStatuses == {"", StatusRunning, StatusStopped, "paused"}

ValidInitial ==
    \E name \in ValidateNames, cpu \in ValidateCPUs,
       memoryMB \in ValidateMemories, image \in ValidateImages,
       status \in ValidateStatuses :
        validated = [ValidIdle EXCEPT !.pc = "input", !.name = name,
                                      !.cpu = cpu, !.memoryMB = memoryMB,
                                      !.image = image, !.status = status]

Validate ==
    /\ validated.pc = "input"
    /\ validated' =
        [validated EXCEPT
            !.pc = "done",
            !.projectNameErr = validateProjectName(validated.name),
            !.instanceNameErr = validateInstanceName(validated.name),
            !.specsErr = validateInstanceSpecs(validated.cpu,
                                               validated.memoryMB,
                                               validated.image),
            !.statusErr = validateInstanceStatus(validated.status)]
    /\ UNCHANGED <<httpVars, norm, fail, callers, clock, metaVars, resVars>>

----------------------------------------------------------------------------
(* The project and instance repositories.  The service reaches them        *)
(* through its ProjectRepository and InstanceRepository interfaces; their  *)
(* SQLite implementations follow the persistence interfaces as specified:  *)
(* absence is NotFound, a second project of the same name AlreadyExists,   *)
(* an update overwrites the fields that are present, and deleting a        *)
(* project neither cascades to its instances nor is blocked by them.       *)

\* An optional (pointer) field of a request: absent, or holding a value.
None == {}
Some(v) == {v}
ValueOf(opt) == CHOOSE v \in opt : TRUE

\* Identifiers are opaque strings; the n-th identifier of a kind.
IdDigit(i) == CASE i = 1 -> "1" [] i = 2 -> "2" [] i = 3 -> "3" [] OTHER -> "4"
ProjectIds == {<<"p", IdDigit(i)>> : i \in 1..MaxProjects}
InstanceIds == {<<"i", IdDigit(i)>> : i \in 1..MaxInstances}

NoProject == [id |-> <<>>, name |-> <<>>]

StoreResult(rows, err) == [rows |-> rows, err |-> err]

ProjectRepoGetByID(rows, id) ==
    IF \E p \in rows : p.id = id
    THEN [project |-> CHOOSE p \in rows : p.id = id, err |-> NoError]
    ELSE [project |-> NoProject, err |-> NotFoundError("project", id)]

ProjectRepoCreate(rows, project) ==
    IF \E p \in rows : p.name = project.name
    THEN StoreResult(rows, AlreadyExistsError("project", "name", project.name))
    ELSE StoreResult(rows \cup {project}, NoError)

ProjectRepoUpdate(rows, id, name) ==
    IF ~\E p \in rows : p.id = id
    THEN StoreResult(rows, NotFoundError("project", id))
    ELSE IF \E p \in rows : p.id # id /\ p.name = name
    THEN StoreResult(rows, AlreadyExistsError("project", "name", name))
    ELSE StoreResult({IF p.id = id THEN [p EXCEPT !.name = name] ELSE p :
                        p \in rows}, NoError)

ProjectRepoDelete(rows, id) ==
    IF ~\E p \in rows : p.id = id
    THEN StoreResult(rows, NotFoundError("project", id))
    ELSE StoreResult({p \in rows : p.id # id}, NoError)

NoInstance ==
    [id |-> <<>>, project_id |-> <<>>, name |-> <<>>, cpu |-> 0,
     memory_mb |-> 0, image |-> <<>>, status |-> ""]

InstanceRepoGetByID(rows, id) ==
    IF \E i \in rows : i.id = id
    THEN [instance |-> CHOOSE i \in rows : i.id = id, err |-> NoError]
    ELSE [instance |-> NoInstance, err |-> NotFoundError("instance", id)]

InstanceRepoCreate(rows, instance) == StoreResult(rows \cup {instance}, NoError)

\* The fields of req that are present, written over the instance.
ApplyUpdate(i, req) ==
    [i EXCEPT
        !.name      = IF req.Name # None THEN ValueOf(req.Name) ELSE @,
        !.cpu       = IF req.CPU # None THEN ValueOf(req.CPU) ELSE @,
        !.memory_mb = IF req.MemoryMB # None THEN ValueOf(req.MemoryMB) ELSE @,
        !.image     = IF req.Image # None THEN ValueOf(req.Image) ELSE @,
        !.status    = IF req.Status # None THEN ValueOf(req.Status) ELSE @]

InstanceRepoUpdate(rows, id, req) ==
    IF ~\E i \in rows : i.id = id
    THEN StoreResult(rows, NotFoundError("instance", id))
    ELSE StoreResult({IF i.id = id THEN ApplyUpdate(i, req) ELSE i : i \in rows},
                     NoError)

InstanceRepoDelete(rows, id) ==
    IF ~\E i \in rows : i.id = id
    THEN StoreResult(rows, NotFoundError("instance", id))
    ELSE StoreResult({i \in rows : i.id # id}, NoError)

----------------------------------------------------------------------------
(* The resource lifecycle service.                                         *)

\* CreateInstance that returns the project lookup's error as it is.
CreateInstanceCheck_NoRekind(projectRows, req) ==
    LET status == IF req.Status = "" THEN StatusRunning ELSE req.Status
        lookup == ProjectRepoGetByID(projectRows, req.ProjectID)
        failed(err, calls) ==
            [err |-> err, instance |-> NoInstance, calls |-> calls]
    IN  IF validateInstanceName(req.Name) # NoError THEN
            failed(validateInstanceName(req.Name), <<>>)
        ELSE IF validateInstanceSpecs(req.CPU, req.MemoryMB, req.Image) # NoError THEN
            failed(validateInstanceSpecs(req.CPU, req.MemoryMB, req.Image), <<>>)
        ELSE IF validateInstanceStatus(status) # NoError THEN
            failed(validateInstanceStatus(status), <<>>)
        ELSE IF lookup.err # NoError THEN
            failed(lookup.err, <<"projectRepo.GetByID">>)
        ELSE [err |-> NoError,
              calls |-> <<"projectRepo.GetByID">>,
              instance |-> [id |-> <<>>, project_id |-> req.ProjectID,
                            name |-> req.Name, cpu |-> req.CPU,
                            memory_mb |-> req.MemoryMB, image |-> req.Image,
                            status |-> status]]

\* CreateInstance that looks the project up before it validates.
CreateInstanceAfterLookup_LookupFirst(req, lookup) ==
    LET status == IF req.Status = "" THEN StatusRunning ELSE req.Status
        failed(err, calls) ==
            [err |-> err, instance |-> NoInstance, calls |-> calls]
    IN  IF lookup.err # NoError THEN
            IF IsNotFound(lookup.err)
            THEN failed(ForeignKeyViolationError("project", "id", req.ProjectID),
                      <<"projectRepo.GetByID">>)
            ELSE failed(lookup.err, <<"projectRepo.GetByID">>)
        ELSE IF validateInstanceName(req.Name) # NoError THEN
            failed(validateInstanceName(req.Name), <<"projectRepo.GetByID">>)
        ELSE IF validateInstanceSpecs(req.CPU, req.MemoryMB, req.Image) # NoError THEN
            failed(validateInstanceSpecs(req.CPU, req.MemoryMB, req.Image),
                   <<"projectRepo.GetByID">>)
        ELSE IF validateInstanceStatus(status) # NoError THEN
            failed(validateInstanceStatus(status), <<"projectRepo.GetByID">>)
        ELSE [err |-> NoError,
              calls |-> <<"projectRepo.GetByID">>,
              instance |-> [id |-> <<>>, project_id |-> req.ProjectID,
                            name |-> req.Name, cpu |-> req.CPU,
                            memory_mb |-> req.MemoryMB, image |-> req.Image,
                            status |-> status]]

\* CreateInstance up to and including the project lookup, given what the
\* lookup returns: the error it returns, or NoError and the instance it
\* goes on to insert (without id), and the repository calls it made.
CreateInstanceAfterLookup(req, lookup) ==
    LET status == IF req.Status = "" THEN StatusRunning ELSE req.Status
        failed(err, calls) ==
            [err |-> err, instance |-> NoInstance, calls |-> calls]
    IN  IF validateInstanceName(req.Name) # NoError THEN
            failed(validateInstanceName(req.Name), <<>>)
        ELSE IF validateInstanceSpecs(req.CPU, req.MemoryMB, req.Image) # NoError THEN
            failed(validateInstanceSpecs(req.CPU, req.MemoryMB, req.Image), <<>>)
        ELSE IF validateInstanceStatus(status) # NoError THEN
            failed(validateInstanceStatus(status), <<>>)
        ELSE IF lookup.err # NoError THEN
            IF IsNotFound(lookup.err)
            THEN failed(ForeignKeyViolationError("project", "id", req.ProjectID),
                      <<"projectRepo.GetByID">>)
            ELSE failed(lookup.err, <<"projectRepo.GetByID">>)
        ELSE [err |-> NoError,
              calls |-> <<"projectRepo.GetByID">>,
              instance |-> [id |-> <<>>, project_id |-> req.ProjectID,
                            name |-> req.Name, cpu |-> req.CPU,
                            memory_mb |-> req.MemoryMB, image |-> req.Image,
                            status |-> status]]

CreateInstanceCheck(projectRows, req) ==
    CreateInstanceAfterLookup(req,
                              ProjectRepoGetByID(projectRows, req.ProjectID))

\* What a service call leaves and returns: the rows, the error, and the
\* repository calls it made, in order.
CallResult(res, calls) == [rows |-> res.rows, err |-> res.err, calls |-> calls]

\* UpdateInstance that persists the request before validating it.
SvcUpdateInstance_PersistFirst(rows, id, req) ==
    LET upd == InstanceRepoUpdate(rows, id, req)
    IN  IF req.Name # None /\ validateInstanceName(ValueOf(req.Name)) # NoError THEN
            CallResult(StoreResult(upd.rows, validateInstanceName(ValueOf(req.Name))),
                       <<"instanceRepo.Update">>)
        ELSE IF /\ req.Status # None
                /\ validateInstanceStatus(ValueOf(req.Status)) # NoError THEN
            CallResult(StoreResult(upd.rows,
                                   validateInstanceStatus(ValueOf(req.Status))),
                       <<"instanceRepo.Update">>)
        ELSE CallResult(upd, <<"instanceRepo.Update">>)

\* UpdateInstance that validates the request's cpu, memory and image as
\* they come, an absent field being its zero value, without reading the
\* current instance.
SvcUpdateInstance_NoMerge(rows, id, req) ==
    LET cpu    == IF req.CPU # None THEN ValueOf(req.CPU) ELSE 0
        memory == IF req.MemoryMB # None THEN ValueOf(req.MemoryMB) ELSE 0
        image  == IF req.Image # None THEN ValueOf(req.Image) ELSE <<>>
    IN  IF req.Name # None /\ validateInstanceName(ValueOf(req.Name)) # NoError THEN
            CallResult(StoreResult(rows, validateInstanceName(ValueOf(req.Name))),
                       <<>>)
        ELSE IF /\ (req.CPU # None \/ req.MemoryMB # None)
                /\ validateInstanceSpecs(cpu, memory, image) # NoError THEN
            CallResult(StoreResult(rows, validateInstanceSpecs(cpu, memory, image)),
                       <<>>)
        ELSE IF /\ req.Status # None
                /\ validateInstanceStatus(ValueOf(req.Status)) # NoError THEN
            CallResult(StoreResult(rows,
                                   validateInstanceStatus(ValueOf(req.Status))),
                       <<>>)
        ELSE CallResult(InstanceRepoUpdate(rows, id, req),
                        <<"instanceRepo.Update">>)

\* UpdateInstance, as one call, given what instanceRepo.GetByID returns
\* (got) and what instanceRepo.Update returns (upd) when they are called:
\* the rows it leaves, its error and the repository calls it made.
SvcUpdateInstanceOver(rows, req, got, upd) ==
    LET cpu    == IF req.CPU # None THEN ValueOf(req.CPU) ELSE got.instance.cpu
        memory == IF req.MemoryMB # None THEN ValueOf(req.MemoryMB)
                  ELSE got.instance.memory_mb
        image  == IF req.Image # None THEN ValueOf(req.Image)
                  ELSE got.instance.image
        read   == IF req.CPU # None \/ req.MemoryMB # None
                  THEN <<"instanceRepo.GetByID">> ELSE <<>>
    IN  IF req.Name # None /\ validateInstanceName(ValueOf(req.Name)) # NoError THEN
            CallResult(StoreResult(rows, validateInstanceName(ValueOf(req.Name))),
                       <<>>)
        ELSE IF (req.CPU # None \/ req.MemoryMB # None) /\ got.err # NoError THEN
            CallResult(StoreResult(rows, got.err), read)
        ELSE IF /\ (req.CPU # None \/ req.MemoryMB # None)
                /\ validateInstanceSpecs(cpu, memory, image) # NoError THEN
            CallResult(StoreResult(rows, validateInstanceSpecs(cpu, memory, image)),
                       read)
        ELSE IF /\ req.Status # None
                /\ validateInstanceStatus(ValueOf(req.Status)) # NoError THEN
            CallResult(StoreResult(rows,
                                   validateInstanceStatus(ValueOf(req.Status))),
                       read)
        ELSE CallResult(upd, Append(read, "instanceRepo.Update"))

SvcUpdateInstance(rows, id, req) ==
    SvcUpdateInstanceOver(rows, req, InstanceRepoGetByID(rows, id),
                          InstanceRepoUpdate(rows, id, req))

\* What a delete of the service returns: the rows of both tables as it
\* leaves them, its error and the repository calls it made.
DeleteOutcome(projectRows, instanceRows, err, calls) ==
    [projects |-> projectRows, instances |-> instanceRows, err |-> err,
     calls |-> calls]

\* DeleteProject that also deletes the instances of the project.
SvcDeleteProject_Cascade(projectRows, instanceRows, id) ==
    LET res == ProjectRepoDelete(projectRows, id)
    IN  DeleteOutcome(res.rows,
                      IF res.err = NoError
                      THEN {i \in instanceRows : i.project_id # id}
                      ELSE instanceRows,
                      res.err, <<"projectRepo.Delete", "instanceRepo.Delete">>)

SvcDeleteProject(projectRows, instanceRows, id) ==
    LET res == ProjectRepoDelete(projectRows, id)
    IN  DeleteOutcome(res.rows, instanceRows, res.err, <<"projectRepo.Delete">>)

SvcDeleteInstance(projectRows, instanceRows, id) ==
    LET res == InstanceRepoDelete(instanceRows, id)
    IN  DeleteOutcome(projectRows, res.rows, res.err, <<"instanceRepo.Delete">>)

----------------------------------------------------------------------------
(* Requests.                                                               *)

\* project names: empty, two valid ones, one with a space, the longest
\* valid one, and one a character longer
NameInputs ==
    {<<>>, <<"a">>, <<"b", "-", "0">>, <<"a", " ">>,
     [i \in 1..MaxNameLength |-> "Z"], [i \in 1..(MaxNameLength + 1) |-> "Z"]}

\* project identifiers a request names: those the service generates, and
\* the empty identifier, which it never generates
RequestProjectIds == ProjectIds \cup {<<>>}

CreateInstanceRequests ==
    [ProjectID : RequestProjectIds,
     Name      : {<<>>, <<"a">>},
     CPU       : {4, MaxCPU + 1},
     MemoryMB  : {1024, MaxMemoryMB + 1},
     Image     : {<<>>, <<"x">>},
     Status    : {"", StatusStopped, "paused"}]

UpdateInstanceRequests ==
    [Name     : {None, Some(<<"b", "-", "0">>), Some(<<"a", " ">>)},
     CPU      : {None, Some(MaxCPU), Some(0)},
     MemoryMB : {None, Some(MaxMemoryMB), Some(99999999)},
     Image    : {None, Some(<<"y">>), Some(<<>>)},
     Status   : {None, Some(StatusRunning), Some("")}]

----------------------------------------------------------------------------
(* The project and instance operations.  CreateInstance is two steps, the  *)
(* project lookup and the insert, between which other requests run.        *)

NoCreate == NoInstance

\* writeError is not called: the operation returned no error
NoAnswer == [status |-> 0, body |-> NoError]

\* no operation has run against failing stores
FailIdle ==
    [op |-> "none", arg |-> <<>>, err |-> NoError, calls |-> <<>>,
     repoErrs |-> <<>>, http |-> NoAnswer]

\* a response: the operation, its error, and the repository calls it made
ResResponse(op, err, calls) == [op |-> op, err |-> err, calls |-> calls]

ResInitial ==
    /\ projects = {}
    /\ instances = {}
    /\ creating = NoCreate
    /\ rresp = ResResponse("none", NoError, <<>>)

CreateProject ==
    \E name \in NameInputs :
        IF validateProjectName(name) # NoError THEN
            /\ rresp' = ResResponse("CreateProject", validateProjectName(name),
                                    <<>>)
            /\ UNCHANGED <<restVars, norm, fail, metaVars, projects, instances, creating>>
        ELSE
            \* generateID: an identifier no project has
            \E id \in ProjectIds \ {p.id : p \in projects} :
                LET res == ProjectRepoCreate(projects, [id |-> id, name |-> name])
                IN  /\ projects' = res.rows
                    /\ rresp' = ResResponse("CreateProject", res.err,
                                            <<"projectRepo.Create">>)
                    /\ UNCHANGED <<restVars, norm, fail, metaVars, instances, creating>>

UpdateProject ==
    \E id \in RequestProjectIds, name \in NameInputs :
        LET res == IF validateProjectName(name) # NoError
                   THEN CallResult(StoreResult(projects,
                                               validateProjectName(name)), <<>>)
                   ELSE CallResult(ProjectRepoUpdate(projects, id, name),
                                   <<"projectRepo.Update">>)
        IN  /\ projects' = res.rows
            /\ rresp' = ResResponse("UpdateProject", res.err, res.calls)
            /\ UNCHANGED <<restVars, norm, fail, metaVars, instances, creating>>

DeleteProject ==
    \E id \in RequestProjectIds :
        LET out == SvcDeleteProject(projects, instances, id)
        IN  /\ projects' = out.projects
            /\ instances' = out.instances
            /\ rresp' = ResResponse("DeleteProject", out.err, out.calls)
            /\ UNCHANGED <<restVars, norm, fail, metaVars, creating>>

CreateInstanceLookup ==
    /\ creating = NoCreate
    /\ \E req \in CreateInstanceRequests :
        LET chk == CreateInstanceCheck(projects, req)
        IN  IF chk.err # NoError
            THEN /\ rresp' = ResResponse("CreateInstance", chk.err, chk.calls)
                 /\ UNCHANGED <<restVars, norm, fail, metaVars, projects, instances, creating>>
            ELSE /\ Cardinality(instances) < MaxInstances
                 /\ creating' = chk.instance
                 /\ UNCHANGED <<restVars, norm, fail, metaVars, projects, instances, rresp>>

CreateInstanceInsert ==
    /\ creating # NoCreate
    \* generateID: an identifier no instance has
    /\ \E id \in InstanceIds \ {i.id : i \in instances} :
        LET res == InstanceRepoCreate(instances, [creating EXCEPT !.id = id])
        IN  /\ instances' = res.rows
            /\ rresp' = ResResponse("CreateInstance", res.err,
                                    <<"projectRepo.GetByID",
                                      "instanceRepo.Create">>)
            /\ creating' = NoCreate
            /\ UNCHANGED <<restVars, norm, fail, metaVars, projects>>

UpdateInstance ==
    \E id \in InstanceIds, req \in UpdateInstanceRequests :
        LET res == SvcUpdateInstance(instances, id, req)
        IN  /\ instances' = res.rows
            /\ rresp' = ResResponse("UpdateInstance", res.err, res.calls)
            /\ UNCHANGED <<restVars, norm, fail, metaVars, projects, creating>>

DeleteInstance ==
    \E id \in InstanceIds :
        LET out == SvcDeleteInstance(projects, instances, id)
        IN  /\ projects' = out.projects
            /\ instances' = out.instances
            /\ rresp' = ResResponse("DeleteInstance", out.err, out.calls)
            /\ UNCHANGED <<restVars, norm, fail, metaVars, creating>>

----------------------------------------------------------------------------
(* Stores whose database calls may fail.  A database call returns nil or   *)
(* an error of the driver, which is no *DirtError.                         *)

DriverError == [text |-> <<"database is locked">>]

DbOutcomes == {NoError, DriverError}

\* Set, whose db.Exec returns execErr.
RepoSetDb(rows, metadataPath, value, execErr) ==
    IF execErr # NoError
    THEN RepoResult(rows, Errorf("failed to set metadata: ", execErr),
                    NoMetadata, <<>>)
    ELSE RepoSet(rows, metadataPath, value)

\* Get, whose QueryRow(...).Scan returns scanErr, or else sql.ErrNoRows
\* when there is no row.
RepoGetDb(rows, metadataPath, scanErr) ==
    IF scanErr # NoError
    THEN RepoResult(rows, Errorf("failed to get metadata: ", scanErr),
                    NoMetadata, <<>>)
    ELSE RepoGet(rows, metadataPath)

\* List, whose db.Query returns queryErr, whose rows.Scan returns scanErr
\* on the first row, and whose rows.Err returns rowsErr.
RepoListDb(rows, prefix, queryErr, scanErr, rowsErr) ==
    LET listed == RepoList(rows, prefix)
    IN  IF queryErr # NoError THEN
            RepoResult(rows, Errorf("failed to list metadata: ", queryErr),
                       NoMetadata, <<>>)
        ELSE IF listed.paths # <<>> /\ scanErr # NoError THEN
            RepoResult(rows, Errorf("failed to scan metadata path: ", scanErr),
                       NoMetadata, <<>>)
        ELSE IF rowsErr # NoError THEN
            RepoResult(rows, Errorf("error iterating metadata: ", rowsErr),
                       NoMetadata, <<>>)
        ELSE listed

\* Delete, whose Get's scan returns scanErr and whose db.Exec returns
\* execErr.
RepoDeleteDb(rows, metadataPath, scanErr, execErr) ==
    LET got == RepoGetDb(rows, metadataPath, scanErr)
    IN  IF got.err # NoError THEN
            RepoResult(rows, got.err, NoMetadata, <<>>)
        ELSE IF execErr # NoError THEN
            RepoResult(rows, Errorf("failed to delete metadata: ", execErr),
                       NoMetadata, <<>>)
        ELSE RepoDelete(rows, metadataPath)

\* What a project or instance repository returns when its database call
\* fails: nothing (the call succeeds), an InternalError, or an error that
\* is no *DirtError.
StoreFailures ==
    {NoError, InternalError(<<"database failure">>),
     Errorf("database failure: ", DriverError)}

ProjectRepoGetByIDDb(rows, id, failure) ==
    IF failure # NoError THEN [project |-> NoProject, err |-> failure]
    ELSE ProjectRepoGetByID(rows, id)

ProjectRepoCreateDb(rows, project, failure) ==
    IF failure # NoError THEN StoreResult(rows, failure)
    ELSE ProjectRepoCreate(rows, project)

ProjectRepoDeleteDb(rows, id, failure) ==
    IF failure # NoError THEN StoreResult(rows, failure)
    ELSE ProjectRepoDelete(rows, id)

InstanceRepoGetByIDDb(rows, id, failure) ==
    IF failure # NoError THEN [instance |-> NoInstance, err |-> failure]
    ELSE InstanceRepoGetByID(rows, id)

InstanceRepoCreateDb(rows, instance, failure) ==
    IF failure # NoError THEN StoreResult(rows, failure)
    ELSE InstanceRepoCreate(rows, instance)

InstanceRepoUpdateDb(rows, id, req, failure) ==
    IF failure # NoError THEN StoreResult(rows, failure)
    ELSE InstanceRepoUpdate(rows, id, req)

InstanceRepoDeleteDb(rows, id, failure) ==
    IF failure # NoError THEN StoreResult(rows, failure)
    ELSE InstanceRepoDelete(rows, id)

----------------------------------------------------------------------------
(* The service over stores that may fail.  A service call returns the rows *)
(* it leaves, its error, the repository calls it made and the errors they  *)
(* returned to it, in order.                                               *)

SvcOutcome(rows, err, calls, repoErrs) ==
    [rows |-> rows, err |-> err, calls |-> calls, repoErrs |-> repoErrs]

\* A service operation that wraps its repository's error as InternalError.
PassThrough_Wrapped(res, call) ==
    SvcOutcome(res.rows,
               IF res.err # NoError THEN InternalError(ErrorText(res.err))
               ELSE NoError,
               <<call>>, <<res.err>>)

\* A service operation that returns what its one repository call returns.
PassThrough(res, call) == SvcOutcome(res.rows, res.err, <<call>>, <<res.err>>)

EmptyPathError == InvalidInputError("metadata path cannot be empty", NoDetails)

SvcSetMetadataDb(rows, path, value, execErr) ==
    IF path = <<>> THEN SvcOutcome(rows, EmptyPathError, <<>>, <<>>)
    ELSE PassThrough(RepoSetDb(rows, path, value, execErr), "metadataRepo.Set")

\* GetMetadata without the check for the empty path.
SvcGetMetadataDb_NoEmptyCheck(rows, path, scanErr) ==
    PassThrough(RepoGetDb(rows, path, scanErr), "metadataRepo.Get")

SvcGetMetadataDb(rows, path, scanErr) ==
    IF path = <<>> THEN SvcOutcome(rows, EmptyPathError, <<>>, <<>>)
    ELSE PassThrough(RepoGetDb(rows, path, scanErr), "metadataRepo.Get")

SvcListMetadataDb(rows, prefix, queryErr, scanErr, rowsErr) ==
    PassThrough(RepoListDb(rows, prefix, queryErr, scanErr, rowsErr),
                "metadataRepo.List")

SvcDeleteMetadataDb(rows, path, scanErr, execErr) ==
    IF path = <<>> THEN SvcOutcome(rows, EmptyPathError, <<>>, <<>>)
    ELSE PassThrough(RepoDeleteDb(rows, path, scanErr, execErr),
                     "metadataRepo.Delete")

SvcCreateProjectDb(rows, id, name, failure) ==
    IF validateProjectName(name) # NoError
    THEN SvcOutcome(rows, validateProjectName(name), <<>>, <<>>)
    ELSE PassThrough(ProjectRepoCreateDb(rows, [id |-> id, name |-> name],
                                         failure),
                     "projectRepo.Create")

SvcGetProjectDb(rows, id, failure) ==
    LET got == ProjectRepoGetByIDDb(rows, id, failure)
    IN  SvcOutcome(rows, got.err, <<"projectRepo.GetByID">>, <<got.err>>)

SvcDeleteProjectDb(rows, id, failure) ==
    PassThrough(ProjectRepoDeleteDb(rows, id, failure), "projectRepo.Delete")

\* CreateInstance, as one call: the project lookup over projectRows, then
\* the insert of the instance under the identifier id.
SvcCreateInstanceDb(projectRows, rows, id, req, lookupFailure, createFailure) ==
    LET lookup  == ProjectRepoGetByIDDb(projectRows, req.ProjectID, lookupFailure)
        chk     == CreateInstanceAfterLookup(req, lookup)
        created == InstanceRepoCreateDb(rows, [chk.instance EXCEPT !.id = id],
                                        createFailure)
    IN  IF chk.err # NoError
        THEN SvcOutcome(rows, chk.err, chk.calls,
                        IF chk.calls = <<>> THEN <<>> ELSE <<lookup.err>>)
        ELSE SvcOutcome(created.rows, created.err,
                        Append(chk.calls, "instanceRepo.Create"),
                        <<lookup.err, created.err>>)

SvcGetInstanceDb(rows, id, failure) ==
    LET got == InstanceRepoGetByIDDb(rows, id, failure)
    IN  SvcOutcome(rows, got.err, <<"instanceRepo.GetByID">>, <<got.err>>)

SvcUpdateInstanceDb(rows, id, req, getFailure, updateFailure) ==
    LET got == InstanceRepoGetByIDDb(rows, id, getFailure)
        upd == InstanceRepoUpdateDb(rows, id, req, updateFailure)
        res == SvcUpdateInstanceOver(rows, req, got, upd)
    IN  SvcOutcome(res.rows, res.err, res.calls,
                   [k \in 1..Len(res.calls) |->
                       IF res.calls[k] = "instanceRepo.GetByID"
                       THEN got.err ELSE upd.err])

SvcDeleteInstanceDb(rows, id, failure) ==
    PassThrough(InstanceRepoDeleteDb(rows, id, failure), "instanceRepo.Delete")

----------------------------------------------------------------------------
(* The REST transport's error answer (api.Handler.writeError).             *)

StatusNotFound == 404
StatusConflict == 409
StatusBadRequest == 400
StatusUnauthorized == 401
StatusTooManyRequests == 429
StatusServiceUnavailable == 503
StatusInternalServerError == 500

\* writeError without the case for ForeignKeyViolation.
writeError_NoForeignKeyCase(err) ==
    IF IsDirtError(err) THEN
        [status |->
            CASE err.code = ErrorCodeNotFound -> StatusNotFound
              [] err.code = ErrorCodeAlreadyExists -> StatusConflict
              [] err.code = ErrorCodeInvalidInput -> StatusBadRequest
              [] err.code = ErrorCodeUnauthorized -> StatusUnauthorized
              [] err.code = ErrorCodeTooManyRequests -> StatusTooManyRequests
              [] err.code = ErrorCodeServiceUnavailable -> StatusServiceUnavailable
              [] OTHER -> StatusInternalServerError,
         body |-> err]
    ELSE
        [status |-> StatusInternalServerError,
         body |-> InternalError(ErrorText(err))]

\* The status code written and the body encoded.
writeError(err) ==
    IF IsDirtError(err) THEN
        [status |->
            CASE err.code = ErrorCodeNotFound -> StatusNotFound
              [] err.code = ErrorCodeAlreadyExists -> StatusConflict
              [] err.code = ErrorCodeInvalidInput -> StatusBadRequest
              [] err.code = ErrorCodeForeignKeyViolation -> StatusBadRequest
              [] err.code = ErrorCodeUnauthorized -> StatusUnauthorized
              [] err.code = ErrorCodeTooManyRequests -> StatusTooManyRequests
              [] err.code = ErrorCodeServiceUnavailable -> StatusServiceUnavailable
              [] OTHER -> StatusInternalServerError,
         body |-> err]
    ELSE
        [status |-> StatusInternalServerError,
         body |-> InternalError(ErrorText(err))]

----------------------------------------------------------------------------
(* The operations over stores that may fail, one request at a time, each   *)
(* answered by the transport.                                              *)

\* surface paths: the empty path, two spellings of the root, and a name
FailurePaths == {<<>>, <<"/">>, <<".">>, <<"a">>}

\* create requests: valid but for the status, which is unset or invalid
FailureCreateRequests ==
    {[ProjectID |-> pid, Name |-> <<"a">>, CPU |-> 4, MemoryMB |-> 1024,
      Image |-> <<"x">>, Status |-> st] :
        pid \in RequestProjectIds, st \in {"", "paused"}}

\* update requests: a valid cpu, an invalid cpu, a valid status
FailureUpdateRequests ==
    {[Name |-> None, CPU |-> cpu, MemoryMB |-> None, Image |-> None,
      Status |-> st] :
        cpu \in {None, Some(MaxCPU), Some(0)}, st \in {None, Some(StatusStopped)}}

FailResponse(op, arg, out) ==
    [op |-> op, arg |-> arg, err |-> out.err, calls |-> out.calls,
     repoErrs |-> out.repoErrs,
     http |-> IF out.err # NoError THEN writeError(out.err) ELSE NoAnswer]

SetMetadataDb ==
    \E path \in FailurePaths, execErr \in DbOutcomes :
        LET out == SvcSetMetadataDb(metadata, path, "v1", execErr) IN
        /\ metadata' = out.rows
        /\ written' = IF out.err = NoError
                      THEN {w \in written : w.path # normalizePath(path)}
                             \cup {[path |-> normalizePath(path), value |-> "v1"]}
                      ELSE written
        /\ fail' = FailResponse("SetMetadata", path, out)
        /\ UNCHANGED <<restVars, norm, mresp, resVars>>

GetMetadataDb ==
    \E path \in FailurePaths, scanErr \in DbOutcomes :
        LET out == SvcGetMetadataDb(metadata, path, scanErr) IN
        /\ metadata' = out.rows
        /\ fail' = FailResponse("GetMetadata", path, out)
        /\ UNCHANGED <<restVars, norm, mresp, written, resVars>>

ListMetadataDb ==
    \E prefix \in FailurePaths, queryErr, scanErr, rowsErr \in DbOutcomes :
        LET out == SvcListMetadataDb(metadata, prefix, queryErr, scanErr, rowsErr)
        IN  /\ metadata' = out.rows
            /\ fail' = FailResponse("ListMetadata", prefix, out)
            /\ UNCHANGED <<restVars, norm, mresp, written, resVars>>

DeleteMetadataDb ==
    \E path \in FailurePaths, scanErr, execErr \in DbOutcomes :
        LET out == SvcDeleteMetadataDb(metadata, path, scanErr, execErr) IN
        /\ metadata' = out.rows
        /\ written' = IF out.err = NoError
                      THEN {w \in written : w.path # normalizePath(path)}
                      ELSE written
        /\ fail' = FailResponse("DeleteMetadata", path, out)
        /\ UNCHANGED <<restVars, norm, mresp, resVars>>

CreateProjectDb ==
    \E name \in {<<>>, <<"a">>}, failure \in StoreFailures :
        \* generateID: an identifier no project has
        \E id \in ProjectIds \ {p.id : p \in projects} :
            LET out == SvcCreateProjectDb(projects, id, name, failure) IN
            /\ projects' = out.rows
            /\ fail' = FailResponse("CreateProject", name, out)
            /\ UNCHANGED <<restVars, norm, metaVars, instances, creating, rresp>>

GetProjectDb ==
    \E id \in RequestProjectIds, failure \in StoreFailures :
        LET out == SvcGetProjectDb(projects, id, failure) IN
        /\ fail' = FailResponse("GetProject", id, out)
        /\ UNCHANGED <<restVars, norm, metaVars, resVars>>

DeleteProjectDb ==
    \E id \in RequestProjectIds, failure \in StoreFailures :
        LET out == SvcDeleteProjectDb(projects, id, failure) IN
        /\ projects' = out.rows
        /\ fail' = FailResponse("DeleteProject", id, out)
        /\ UNCHANGED <<restVars, norm, metaVars, instances, creating, rresp>>

CreateInstanceDb ==
    \E req \in FailureCreateRequests, lookupFailure, createFailure \in StoreFailures,
       id \in InstanceIds :
        LET out == SvcCreateInstanceDb(projects, instances, id, req,
                                       lookupFailure, createFailure)
        IN  \* generateID: an identifier no instance has
            /\ out.err = NoError => id \notin {i.id : i \in instances}
            /\ instances' = out.rows
            /\ fail' = FailResponse("CreateInstance", req.ProjectID, out)
            /\ UNCHANGED <<restVars, norm, metaVars, projects, creating, rresp>>

GetInstanceDb ==
    \E id \in InstanceIds, failure \in StoreFailures :
        LET out == SvcGetInstanceDb(instances, id, failure) IN
        /\ fail' = FailResponse("GetInstance", id, out)
        /\ UNCHANGED <<restVars, norm, metaVars, resVars>>

UpdateInstanceDb ==
    \E id \in InstanceIds, req \in FailureUpdateRequests,
       getFailure, updateFailure \in StoreFailures :
        LET out == SvcUpdateInstanceDb(instances, id, req, getFailure,
                                       updateFailure)
        IN  /\ instances' = out.rows
            /\ fail' = FailResponse("UpdateInstance", id, out)
            /\ UNCHANGED <<restVars, norm, metaVars, projects, creating, rresp>>

DeleteInstanceDb ==
    \E id \in InstanceIds, failure \in StoreFailures :
        LET out == SvcDeleteInstanceDb(instances, id, failure) IN
        /\ instances' = out.rows
        /\ fail' = FailResponse("DeleteInstance", id, out)
        /\ UNCHANGED <<restVars, norm, metaVars, projects, creating, rresp>>

----------------------------------------------------------------------------
(* Concurrent callers of the metadata repository.  Every request is served *)
(* by its own goroutine, so calls interleave between their database        *)
(* statements; a statement is atomic.  Here a row of the table also        *)
(* carries updated_at.                                                     *)

Callers == {"c1", "c2"}

\* surface paths: three spellings of one canonical path, and another path
ConcurrentPaths == {<<"a">>, <<"/", "a">>, <<"a", "/">>, <<"_">>}

CallIdle ==
    [pc |-> "idle", op |-> "none", path |-> <<>>, value |-> "", now |-> 0,
     err |-> NoError, removed |-> FALSE]

ConcurrentInitial ==
    /\ callers = [c \in Callers |-> CallIdle]
    /\ clock = 0

\* time passes
Tick ==
    /\ clock < MaxClock
    /\ clock' = clock + 1
    /\ UNCHANGED <<httpVars, norm, fail, validated, callers, metaVars, resVars>>

\* Set up to its db.Exec: the path is normalised and the time read.
SetBegin(c) ==
    /\ callers[c].pc # "exec"
    /\ \E path \in ConcurrentPaths, value \in Values :
        callers' = [callers EXCEPT ![c] =
                        [CallIdle EXCEPT !.pc = "exec", !.op = "Set",
                                         !.path = path, !.value = value,
                                         !.now = clock]]
    /\ UNCHANGED <<httpVars, norm, fail, validated, clock, metaVars, resVars>>

\* The *domain.Metadata Set builds.
SetRow(metadataPath, value, now) ==
    [path |-> normalizePath(metadataPath), value |-> value, updated_at |-> now]

\* Set's db.Exec of INSERT OR REPLACE, and its return.
SetExec(c) ==
    /\ callers[c].pc = "exec"
    /\ callers[c].op = "Set"
    /\ \E execErr \in DbOutcomes :
        LET m == SetRow(callers[c].path, callers[c].value, callers[c].now) IN
        IF execErr # NoError
        THEN /\ callers' = [callers EXCEPT
                    ![c].pc = "done",
                    ![c].err = Errorf("failed to set metadata: ", execErr)]
             /\ UNCHANGED <<metadata, written>>
        ELSE /\ metadata' = InsertOrReplace(metadata, m)
             /\ written' = {w \in written : w.path # m.path} \cup {m}
             /\ callers' = [callers EXCEPT ![c].pc = "done"]
    /\ UNCHANGED <<httpVars, norm, fail, validated, clock, mresp, resVars>>

\* Get: one query.
GetCall(c) ==
    /\ callers[c].pc # "exec"
    /\ \E path \in ConcurrentPaths :
        callers' = [callers EXCEPT ![c] =
                        [CallIdle EXCEPT !.pc = "done", !.op = "Get",
                                         !.path = path,
                                         !.err = RepoGet(metadata, path).err]]
    /\ metadata' = metadata
    /\ UNCHANGED <<httpVars, norm, fail, validated, clock, mresp, written, resVars>>

\* List: one query.
ListCall(c) ==
    /\ callers[c].pc # "exec"
    /\ \E prefix \in ConcurrentPaths :
        callers' = [callers EXCEPT ![c] =
                        [CallIdle EXCEPT !.pc = "done", !.op = "List",
                                         !.path = prefix,
                                         !.err = RepoList(metadata, prefix).err]]
    /\ metadata' = metadata
    /\ UNCHANGED <<httpVars, norm, fail, validated, clock, mresp, written, resVars>>

\* Delete up to its db.Exec: the path is normalised and Get is called;
\* Delete returns Get's error, if any.
DeleteGet(c) ==
    /\ callers[c].pc # "exec"
    /\ \E path \in ConcurrentPaths :
        LET got == RepoGet(metadata, path) IN
        callers' = [callers EXCEPT ![c] =
                        [CallIdle EXCEPT
                            !.pc = IF got.err # NoError THEN "done" ELSE "exec",
                            !.op = "Delete", !.path = path, !.err = got.err]]
    /\ metadata' = metadata
    /\ UNCHANGED <<httpVars, norm, fail, validated, clock, mresp, written, resVars>>

\* Delete's db.Exec of DELETE FROM metadata WHERE path = ?, and its
\* return: the statement succeeds whether or not it removes a row.
DeleteExec(c) ==
    /\ callers[c].pc = "exec"
    /\ callers[c].op = "Delete"
    /\ \E execErr \in DbOutcomes :
        LET normalizedPath == normalizePath(callers[c].path) IN
        IF execErr # NoError
        THEN /\ callers' = [callers EXCEPT
                    ![c].pc = "done",
                    ![c].err = Errorf("failed to delete metadata: ", execErr)]
             /\ UNCHANGED <<metadata, written>>
        ELSE /\ metadata' = {r \in metadata : r.path # normalizedPath}
             /\ written' = {w \in written : w.path # normalizedPath}
             /\ callers' = [callers EXCEPT
                    ![c].pc = "done",
                    ![c].removed = \E r \in metadata : r.path = normalizedPath]
    /\ UNCHANGED <<httpVars, norm, fail, validated, clock, mresp, resVars>>

----------------------------------------------------------------------------
(* The HTTP router: the REST handlers under /v1 (api.Handler), which check *)
(* the bearer token and then the chaos service before they call the        *)
(* service, and the console handlers under /web (web.Handler).             *)

StatusOK == 200
StatusCreated == 201
StatusNoContent == 204

\* the configured token: none, or "tk"
Tokens == {<<>>, <<"t", "k">>}

\* Authorization headers: absent, "Bearer tk", "bearer tk", "Bearer x",
\* "tk", "Basic tk"
Headers ==
    {<<>>,
     <<"B", "e", "a", "r", "e", "r", " ", "t", "k">>,
     <<"b", "e", "a", "r", "e", "r", " ", "t", "k">>,
     <<"B", "e", "a", "r", "e", "r", " ", "x">>,
     <<"t", "k">>,
     <<"B", "a", "s", "i", "c", " ", "t", "k">>}

\* strings.ToLower, on the letters the headers are written with
ToLower(str) ==
    [i \in 1..Len(str) |->
        CASE str[i] = "B" -> "b"
          [] str[i] = "E" -> "e"
          [] str[i] = "A" -> "a"
          [] str[i] = "R" -> "r"
          [] OTHER -> str[i]]

\* strings.SplitN(str, " ", 2)
SplitN2(str) ==
    LET spaces == {i \in 1..Len(str) : str[i] = " "}
    IN  IF spaces = {} THEN <<str>>
        ELSE LET k == CHOOSE i \in spaces : \A j \in spaces : i <= j
             IN  <<SubSeq(str, 1, k - 1), SubSeq(str, k + 1, Len(str))>>

authenticate(tok, authHeader) ==
    LET parts == SplitN2(authHeader)
    IN  IF tok = <<>> THEN NoError
        ELSE IF authHeader = <<>> THEN
            UnauthorizedError(<<"missing authorization header">>)
        ELSE IF Len(parts) # 2 \/ ToLower(parts[1]) # <<"b", "e", "a", "r", "e", "r">>
        THEN UnauthorizedError(<<"invalid authorization header format">>)
        ELSE IF parts[2] # tok THEN UnauthorizedError(<<"invalid token">>)
        ELSE NoError

\* What the chaos service answers a request with: nothing, or a failure
\* it injects.
ChaosOutcomes == {NoError, ServiceUnavailableError(<<"chaos">>)}

\* The checks a REST handler makes before it reads the request: the first
\* error of authenticate and the chaos service, or NoError.
PreCheck(header, chaosErr) ==
    IF authenticate(token, header) # NoError
    THEN authenticate(token, header)
    ELSE chaosErr

Served(route, header, status, ops) ==
    [route |-> route, header |-> header, status |-> status, ops |-> ops]

ServedIdle == Served("none", <<>>, 0, <<>>)

\* h.writeError(w, err) or the success status of a REST handler
ApiAnswer(route, header, okStatus, err, ops) ==
    Served(route, header,
           IF err # NoError THEN writeError(err).status ELSE okStatus, ops)

\* http.Error(w, err.Error(), 500) or the success status of a console
\* handler
WebAnswer(route, header, err, ops) ==
    Served(route, header,
           IF err # NoError THEN StatusInternalServerError ELSE StatusOK, ops)

RouterNames == {<<>>, <<"a">>}
RouterPaths == {<<>>, <<"a">>}
RouterCreateRequests ==
    {[ProjectID |-> pid, Name |-> <<"a">>, CPU |-> 4, MemoryMB |-> 1024,
      Image |-> <<"x">>, Status |-> ""] : pid \in RequestProjectIds}

RouterInitial ==
    /\ token \in Tokens
    /\ served = ServedIdle

\* The tables as a handler that returns before calling the service leaves
\* them.
StoresUntouched == UNCHANGED <<projects, instances, metadata, written>>

\* POST /v1/projects
ApiCreateProject ==
    /\ \E header \in Headers, chaosErr \in ChaosOutcomes, name \in RouterNames,
          id \in ProjectIds \ {p.id : p \in projects} :
        LET route == "POST /v1/projects"
            pre   == PreCheck(header, chaosErr)
            out   == SvcCreateProjectDb(projects, id, name, NoError)
        IN  IF pre # NoError
            THEN /\ served' = ApiAnswer(route, header, StatusCreated, pre, <<>>)
                 /\ StoresUntouched
            ELSE /\ projects' = out.rows
                 /\ served' = ApiAnswer(route, header, StatusCreated, out.err,
                                        <<"CreateProject">>)
                 /\ UNCHANGED <<instances, metadata, written>>
    /\ UNCHANGED <<norm, fail, validated, callers, clock, token, mresp,
                   creating, rresp>>

\* GET /v1/projects/{id}
ApiGetProject ==
    /\ \E header \in Headers, chaosErr \in ChaosOutcomes, id \in ProjectIds :
        LET route == "GET /v1/projects/{id}"
            pre   == PreCheck(header, chaosErr)
            out   == SvcGetProjectDb(projects, id, NoError)
        IN  IF pre # NoError
            THEN served' = ApiAnswer(route, header, StatusOK, pre, <<>>)
            ELSE served' = ApiAnswer(route, header, StatusOK, out.err,
                                     <<"GetProject">>)
    /\ StoresUntouched
    /\ UNCHANGED <<norm, fail, validated, callers, clock, token, mresp,
                   creating, rresp>>

\* DELETE /v1/projects/{id}
ApiDeleteProject ==
    /\ \E header \in Headers, chaosErr \in ChaosOutcomes, id \in ProjectIds :
        LET route == "DELETE /v1/projects/{id}"
            pre   == PreCheck(header, chaosErr)
            out   == SvcDeleteProject(projects, instances, id)
        IN  IF pre # NoError
            THEN /\ served' = ApiAnswer(route, header, StatusNoContent, pre, <<>>)
                 /\ StoresUntouched
            ELSE /\ projects' = out.projects
                 /\ instances' = out.instances
                 /\ served' = ApiAnswer(route, header, StatusNoContent, out.err,
                                        <<"DeleteProject">>)
                 /\ UNCHANGED <<metadata, written>>
    /\ UNCHANGED <<norm, fail, validated, callers, clock, token, mresp,
                   creating, rresp>>

\* POST /v1/instances
ApiCreateInstance ==
    /\ \E header \in Headers, chaosErr \in ChaosOutcomes,
          req \in RouterCreateRequests,
          id \in InstanceIds \ {i.id : i \in instances} :
        LET route == "POST /v1/instances"
            pre   == PreCheck(header, chaosErr)
            out   == SvcCreateInstanceDb(projects, instances, id, req,
                                         NoError, NoError)
        IN  IF pre # NoError
            THEN /\ served' = ApiAnswer(route, header, StatusCreated, pre, <<>>)
                 /\ StoresUntouched
            ELSE /\ instances' = out.rows
                 /\ served' = ApiAnswer(route, header, StatusCreated, out.err,
                                        <<"CreateInstance">>)
                 /\ UNCHANGED <<projects, metadata, written>>
    /\ UNCHANGED <<norm, fail, validated, callers, clock, token, mresp,
                   creating, rresp>>

\* PUT /v1/metadata/{path}
ApiSetMetadata ==
    /\ \E header \in Headers, chaosErr \in ChaosOutcomes, path \in RouterPaths :
        LET route == "PUT /v1/metadata/{path}"
            pre   == PreCheck(header, chaosErr)
            out   == SvcSetMetadata(metadata, path, "v1")
        IN  IF pre # NoError THEN
                /\ served' = ApiAnswer(route, header, StatusOK, pre, <<>>)
                /\ StoresUntouched
            ELSE IF path = <<>> THEN
                /\ served' = ApiAnswer(route, header, StatusOK, EmptyPathError,
                                       <<>>)
                /\ StoresUntouched
            ELSE
                /\ metadata' = out.rows
                /\ written' = {w \in written : w.path # normalizePath(path)}
                                \cup {[path |-> normalizePath(path),
                                       value |-> "v1"]}
                /\ served' = ApiAnswer(route, header, StatusOK, out.err,
                                       <<"SetMetadata">>)
                /\ UNCHANGED <<projects, instances>>
    /\ UNCHANGED <<norm, fail, validated, callers, clock, token, mresp,
                   creating, rresp>>

\* GET /v1/metadata/{path}
ApiGetMetadata ==
    /\ \E header \in Headers, chaosErr \in ChaosOutcomes, path \in RouterPaths :
        LET route == "GET /v1/metadata/{path}"
            pre   == PreCheck(header, chaosErr)
            out   == SvcGetMetadata(metadata, path)
        IN  IF pre # NoError THEN
                served' = ApiAnswer(route, header, StatusOK, pre, <<>>)
            ELSE IF path = <<>> THEN
                served' = ApiAnswer(route, header, StatusOK, EmptyPathError, <<>>)
            ELSE
                served' = ApiAnswer(route, header, StatusOK, out.err,
                                    <<"GetMetadataValue">>)
    /\ StoresUntouched
    /\ UNCHANGED <<norm, fail, validated, callers, clock, token, mresp,
                   creating, rresp>>

\* DELETE /v1/metadata/{path}
ApiDeleteMetadata ==
    /\ \E header \in Headers, chaosErr \in ChaosOutcomes, path \in RouterPaths :
        LET route == "DELETE /v1/metadata/{path}"
            pre   == PreCheck(header, chaosErr)
            out   == SvcDeleteMetadata(metadata, path)
        IN  IF pre # NoError THEN
                /\ served' = ApiAnswer(route, header, StatusNoContent, pre, <<>>)
                /\ StoresUntouched
            ELSE IF path = <<>> THEN
                /\ served' = ApiAnswer(route, header, StatusNoContent,
                                       EmptyPathError, <<>>)
                /\ StoresUntouched
            ELSE
                /\ metadata' = out.rows
                /\ written' = IF out.err = NoError
                              THEN {w \in written : w.path # normalizePath(path)}
                              ELSE written
                /\ served' = ApiAnswer(route, header, StatusNoContent, out.err,
                                       <<"DeleteMetadata">>)
                /\ UNCHANGED <<projects, instances>>
    /\ UNCHANGED <<norm, fail, validated, callers, clock, token, mresp,
                   creating, rresp>>

\* POST /web/projects: the project is created and the list rendered.
WebCreateProject ==
    /\ \E header \in Headers, name \in RouterNames,
          id \in ProjectIds \ {p.id : p \in projects} :
        LET route == "POST /web/projects"
            out   == SvcCreateProjectDb(projects, id, name, NoError)
        IN  /\ projects' = out.rows
            /\ served' = WebAnswer(route, header, out.err,
                                   IF out.err # NoError THEN <<"CreateProject">>
                                   ELSE <<"CreateProject", "ListProjects">>)
    /\ UNCHANGED <<instances, metadata, written>>
    /\ UNCHANGED <<norm, fail, validated, callers, clock, token, mresp,
                   creating, rresp>>

\* DELETE /web/projects/{id}
WebDeleteProject ==
    /\ \E header \in Headers, id \in ProjectIds :
        LET route == "DELETE /web/projects/{id}"
            out   == SvcDeleteProject(projects, instances, id)
        IN  /\ projects' = out.projects
            /\ instances' = out.instances
            /\ served' = WebAnswer(route, header, out.err, <<"DeleteProject">>)
    /\ UNCHANGED <<metadata, written>>
    /\ UNCHANGED <<norm, fail, validated, callers, clock, token, mresp,
                   creating, rresp>>

\* POST /web/instances: the instance is created and the list rendered.
WebCreateInstance ==
    /\ \E header \in Headers, req \in RouterCreateRequests,
          id \in InstanceIds \ {i.id : i \in instances} :
        LET route == "POST /web/instances"
            out   == SvcCreateInstanceDb(projects, instances, id, req,
                                         NoError, NoError)
        IN  /\ instances' = out.rows
            /\ served' = WebAnswer(route, header, out.err,
                                   IF out.err # NoError THEN <<"CreateInstance">>
                                   ELSE <<"CreateInstance", "ListInstances">>)
    /\ UNCHANGED <<projects, metadata, written>>
    /\ UNCHANGED <<norm, fail, validated, callers, clock, token, mresp,
                   creating, rresp>>

\* POST /web/metadata: the entry is set and the list rendered.
WebCreateMetadata ==
    /\ \E header \in Headers, path \in RouterPaths :
        LET route == "POST /web/metadata"
            out   == SvcSetMetadata(metadata, path, "v1")
        IN  /\ metadata' = out.rows
            /\ written' = IF out.err = NoError
                          THEN {w \in written : w.path # normalizePath(path)}
                                 \cup {[path |-> normalizePath(path),
                                        value |-> "v1"]}
                          ELSE written
            /\ served' = WebAnswer(route, header, out.err,
                                   IF out.err # NoError THEN <<"SetMetadata">>
                                   ELSE <<"SetMetadata", "ListMetadata">>)
    /\ UNCHANGED <<projects, instances>>
    /\ UNCHANGED <<norm, fail, validated, callers, clock, token, mresp,
                   creating, rresp>>

\* DELETE /web/metadata/delete?path=
WebDeleteMetadata ==
    /\ \E header \in Headers, path \in RouterPaths :
        LET route == "DELETE /web/metadata/delete"
            out   == SvcDeleteMetadata(metadata, path)
        IN  IF path = <<>>
            THEN /\ served' = Served(route, header, StatusBadRequest, <<>>)
                 /\ UNCHANGED <<metadata, written>>
            ELSE /\ metadata' = out.rows
                 /\ written' = IF out.err = NoError
                               THEN {w \in written : w.path # normalizePath(path)}
                               ELSE written
                 /\ served' = WebAnswer(route, header, out.err,
                                        <<"DeleteMetadata">>)
    /\ UNCHANGED <<projects, instances>>
    /\ UNCHANGED <<norm, fail, validated, callers, clock, token, mresp,
                   creating, rresp>>

----------------------------------------------------------------------------
(* Specifications.                                                         *)

\* What a specification leaves idle.
RestIdle ==
    validated = ValidIdle /\ ConcurrentInitial /\ token = <<>>
    /\ served = ServedIdle

\* The path normaliser as a pure function of its input.
InitNormalize == NormInitial /\ MetaInitial /\ ResInitial /\ fail = FailIdle
    /\ RestIdle
NextNormalize == Normalize \/ NormalizeAgain
SpecNormalize == InitNormalize /\ [][NextNormalize]_vars

\* The metadata namespace behind the service.
InitMetadata == norm = NormIdle /\ MetaInitial /\ ResInitial /\ fail = FailIdle
    /\ RestIdle
NextMetadata == SetMetadata \/ GetMetadata \/ ListMetadata \/ DeleteMetadata
SpecMetadata == InitMetadata /\ [][NextMetadata]_vars

\* The project and instance lifecycle behind the service.
InitResources == norm = NormIdle /\ MetaInitial /\ ResInitial /\ fail = FailIdle
    /\ RestIdle
NextResources ==
    \/ CreateProject
    \/ UpdateProject
    \/ DeleteProject
    \/ CreateInstanceLookup
    \/ CreateInstanceInsert
    \/ UpdateInstance
    \/ DeleteInstance
SpecResources == InitResources /\ [][NextResources]_vars

\* The validators as pure functions of their inputs.
InitValidate ==
    norm = NormIdle /\ MetaInitial /\ ResInitial /\ fail = FailIdle
    /\ ValidInitial /\ ConcurrentInitial /\ token = <<>> /\ served = ServedIdle
NextValidate == Validate
SpecValidate == InitValidate /\ [][NextValidate]_vars

\* The metadata repository under concurrent callers.
InitConcurrent ==
    norm = NormIdle /\ MetaInitial /\ ResInitial /\ fail = FailIdle
    /\ validated = ValidIdle /\ ConcurrentInitial
    /\ token = <<>> /\ served = ServedIdle
NextConcurrent ==
    \/ Tick
    \/ \E c \in Callers :
        \/ SetBegin(c)
        \/ SetExec(c)
        \/ GetCall(c)
        \/ ListCall(c)
        \/ DeleteGet(c)
        \/ DeleteExec(c)
SpecConcurrent == InitConcurrent /\ [][NextConcurrent]_vars

\* The routes of the HTTP router, with or without a configured token.
InitRouter ==
    norm = NormIdle /\ MetaInitial /\ ResInitial /\ fail = FailIdle
    /\ validated = ValidIdle /\ ConcurrentInitial /\ RouterInitial
NextRouter ==
    \/ ApiCreateProject
    \/ ApiGetProject
    \/ ApiDeleteProject
    \/ ApiCreateInstance
    \/ ApiSetMetadata
    \/ ApiGetMetadata
    \/ ApiDeleteMetadata
    \/ WebCreateProject
    \/ WebDeleteProject
    \/ WebCreateInstance
    \/ WebCreateMetadata
    \/ WebDeleteMetadata
SpecRouter == InitRouter /\ [][NextRouter]_vars

\* Every service operation over stores whose database calls may fail.
InitFailures == norm = NormIdle /\ MetaInitial /\ ResInitial /\ fail = FailIdle
    /\ RestIdle
NextFailures ==
    \/ SetMetadataDb
    \/ GetMetadataDb
    \/ ListMetadataDb
    \/ DeleteMetadataDb
    \/ CreateProjectDb
    \/ GetProjectDb
    \/ DeleteProjectDb
    \/ CreateInstanceDb
    \/ GetInstanceDb
    \/ UpdateInstanceDb
    \/ DeleteInstanceDb
SpecFailures == InitFailures /\ [][NextFailures]_vars

----------------------------------------------------------------------------
(* Claims about the metadata namespace.                                    *)

\* The elements of a sequence.
Range(seq) == {seq[i] : i \in 1..Len(seq)}

\* C1: the metadata store holds at most one entry per canonical path: no
\* two rows have paths with the same canonical form, and List("") names no
\* canonical path twice, after any sequence of Set and Delete calls.
C1_OneEntryPerCanonicalPath ==
    /\ \A r1, r2 \in metadata :
            normalizePath(r1.path) = normalizePath(r2.path) => r1 = r2
    /\ LET l == RepoList(metadata, <<>>).paths IN
            /\ Len(l) = Cardinality({normalizePath(r.path) : r \in metadata})
            /\ \A i, j \in 1..Len(l) :
                    normalizePath(l[i]) = normalizePath(l[j]) => i = j

\* A Set through a non-canonical surface path replaced the only row.
C1_Witness ==
    /\ mresp.op = "Set"
    /\ mresp.err = NoError
    /\ mresp.path # normalizePath(mresp.path)
    /\ mresp.before = 1
    /\ Len(RepoList(metadata, <<>>).paths) = 1

\* C2: after Set(p, v), with no later Set or Delete on that canonical path,
\* Get(p') for every p' with normalize(p') = normalize(p) succeeds and
\* returns the value v and the canonical path normalize(p).
C2_RoundTrip ==
    /\ \A w \in written : \A p \in SurfacePaths :
            normalizePath(p) = w.path =>
                LET g == RepoGet(metadata, p) IN
                /\ g.err = NoError
                /\ g.meta.value = w.value
                /\ g.meta.path = w.path
    /\ (mresp.op = "Get" /\ mresp.path # <<>>) =>
            \A w \in written :
                normalizePath(mresp.path) = w.path =>
                    mresp.err = NoError /\ mresp.meta = w

\* A Get through a non-canonical surface path returned a stored value while
\* another entry was stored too.
C2_Witness ==
    /\ mresp.op = "Get"
    /\ mresp.err = NoError
    /\ mresp.path # mresp.meta.path
    /\ mresp.meta.value = "v2"
    /\ Cardinality(metadata) = 2

\* C6: List(f) returns exactly the stored paths the filter selects: all of
\* them when f is empty, and otherwise exactly those that have normalize(f)
\* as a literal, character-for-character prefix.
C6_ListIsLiteralPrefix ==
    \A f \in SurfacePaths :
        Range(RepoList(metadata, f).paths) =
            {r.path : r \in {q \in metadata :
                                f = <<>> \/ HasPrefix(q.path, normalizePath(f))}}

\* A path lies under the segment named by the canonical path c.
UnderSegment(path, c) ==
    \/ c = <<"/">>
    \/ path = c
    \/ HasPrefix(path, c \o <<"/">>)

\* C7 as stated: List(p + "/") returns only stored paths that lie under the
\* segment p (for filters without a LIKE wildcard character).
C7_SeparatorIsolates ==
    \A p \in SurfacePaths :
        (\A i \in 1..Len(p) : p[i] # "_") =>
            \A path \in Range(RepoList(metadata, p \o <<"/">>).paths) :
                UnderSegment(path, normalizePath(p))

\* C7 as amended: appending a separator to a prefix filter changes nothing,
\* because the filter is normalised and the trailing separator stripped:
\* List(p + "/") returns exactly what List(p) returns.
C7_SeparatorIsStripped ==
    \A p \in SurfacePaths \ {<<>>} :
        RepoList(metadata, p \o <<"/">>).paths = RepoList(metadata, p).paths

\* List("a/") returned the sibling "/aa" of the segment "/a".
C7_Witness ==
    /\ mresp.op = "List"
    /\ mresp.path = <<"a", "/">>
    /\ <<"/", "a", "a">> \in Range(mresp.paths)

\* C8: the canonical root is never a stored key: Get of any path that
\* normalises to "/" fails with NotFound in every reachable state.
C8_RootNeverStored ==
    \A p \in SurfacePaths :
        normalizePath(p) = <<"/">> =>
            RepoGet(metadata, p).err.code = ErrorCodeNotFound

\* What Delete(p) must do to the rows it is given.
DeleteContract(rows, p) ==
    LET c == normalizePath(p)
        d == RepoDelete(rows, p)
    IN  IF \E r \in rows : r.path = c
        THEN /\ d.err = NoError
             /\ d.rows = {r \in rows : r.path # c}
             /\ RepoGet(d.rows, p).err.code = ErrorCodeNotFound
             /\ RepoDelete(d.rows, p).err.code = ErrorCodeNotFound
        ELSE /\ d.err.code = ErrorCodeNotFound
             /\ d.rows = rows

\* C9: Delete(p) fails with NotFound and leaves the store unchanged when no
\* entry exists at normalize(p); otherwise it succeeds, removes exactly
\* that entry, and a following Get(p) or Delete(p) fails with NotFound.
C9_Delete ==
    [][(mresp'.op = "Delete" /\ mresp'.path # <<>>) =>
          /\ \A p \in SurfacePaths : DeleteContract(metadata, p)
          /\ IF \E r \in metadata : r.path = normalizePath(mresp'.path)
             THEN /\ mresp'.err = NoError
                  /\ metadata' = {r \in metadata :
                                    r.path # normalizePath(mresp'.path)}
                  /\ RepoGet(metadata', mresp'.path).err.code
                        = ErrorCodeNotFound
             ELSE /\ mresp'.err.code = ErrorCodeNotFound
                  /\ metadata' = metadata]_vars

\* A Delete through a non-canonical surface path removed one of two rows.
C9_Witness ==
    /\ mresp.op = "Delete"
    /\ mresp.err = NoError
    /\ mresp.path # normalizePath(mresp.path)
    /\ mresp.before = 2
    /\ Cardinality(metadata) = 1

\* C10: normalize is total and idempotent: it returns a path for every
\* input, and normalising its result again returns the same path.
C10_NormalizeIdempotent ==
    /\ norm.pc \in {"once", "twice"} => Len(norm.once) >= 1
    /\ norm.pc = "twice" => norm.twice = norm.once

\* An input with ".." at the root and a trailing separator was normalised
\* twice.
C10_Witness ==
    /\ norm.pc = "twice"
    /\ norm.input = <<".", ".", "/", "a", "/">>
    /\ norm.twice = <<"/", "a">>

\* The segments of a string: the runs between its separators.
RECURSIVE SplitSegments(_, _)
SplitSegments(p, cur) ==
    IF p = <<>> THEN <<cur>>
    ELSE IF Head(p) = "/" THEN <<cur>> \o SplitSegments(Tail(p), <<>>)
    ELSE SplitSegments(Tail(p), Append(cur, Head(p)))

\* The reference algorithm's pass over the segments: an empty segment and
\* "." are dropped, ".." pops the preceding kept segment or is dropped at
\* the root, any other segment is kept.
RECURSIVE ResolveSegments(_, _)
ResolveSegments(segs, kept) ==
    IF segs = <<>> THEN kept
    ELSE IF Head(segs) = <<>> \/ Head(segs) = <<".">> THEN
        ResolveSegments(Tail(segs), kept)
    ELSE IF Head(segs) = <<".", ".">> THEN
        ResolveSegments(Tail(segs),
                        IF kept = <<>> THEN kept
                        ELSE SubSeq(kept, 1, Len(kept) - 1))
    ELSE ResolveSegments(Tail(segs), Append(kept, Head(segs)))

\* The reference algorithm: prepend the separator if absent, resolve the
\* segments, and write each kept segment after a separator; the root when
\* nothing is kept.
ReferenceNormalize(p) ==
    LET p1   == IF p = <<>> \/ Head(p) # "/" THEN <<"/">> \o p ELSE p
        kept == ResolveSegments(SplitSegments(p1, <<>>), <<>>)
    IN  IF kept = <<>> THEN <<"/">> ELSE <<"/">> \o JoinSegments(kept)

\* C11: normalize(p) equals the result of the reference algorithm for
\* every input: prepend "/" if absent, drop "." segments, let ".." pop the
\* preceding segment or be dropped at the root, collapse consecutive "/",
\* strip a trailing "/", and yield "/" when nothing remains.
C11_NormalizeIsReference ==
    norm.pc \in {"once", "twice"} => norm.once = ReferenceNormalize(norm.input)

\* The input "a//_/../a" (as "config//app/../settings") was normalised to
\* "/a/a".
C11_Witness ==
    /\ norm.pc = "once"
    /\ norm.input = <<"a", "/", "/", "_", "/", ".", ".", "/", "a">>
    /\ norm.once = <<"/", "a", "/", "a">>

\* A canonical path: it starts with the separator and is the root, or
\* none of the segments after the leading separator is empty (a doubled or
\* trailing separator), "." or "..".
IsCanonical(p) ==
    /\ p # <<>>
    /\ Head(p) = "/"
    /\ \/ p = <<"/">>
       \/ \A seg \in Range(SplitSegments(Tail(p), <<>>)) :
              seg \notin {<<>>, <<".">>, <<".", ".">>}

\* C12: every path stored in the metadata store, and every path returned
\* by Set, Get or List, is canonical after any sequence of operations.
C12_PathsAreCanonical ==
    /\ \A r \in metadata : IsCanonical(r.path)
    /\ (mresp.op \in {"Set", "Get"} /\ mresp.err = NoError) =>
            IsCanonical(mresp.meta.path)
    /\ mresp.op = "List" => \A path \in Range(mresp.paths) : IsCanonical(path)

\* Set("//") returned the root while another entry was stored already.
C12_Witness ==
    /\ mresp.op = "Set"
    /\ mresp.path = <<"/", "/">>
    /\ mresp.meta.path = <<"/">>
    /\ mresp.before = 1
    /\ Cardinality(metadata) = 2

----------------------------------------------------------------------------
(* Claims about the resource lifecycle service.                            *)

\* C3: every persisted instance passes full spec validation (cpu, memory
\* and image) after any sequence of accepted CreateInstance and
\* UpdateInstance calls.
C3_PersistedInstancesValid ==
    \A i \in instances :
        validateInstanceSpecs(i.cpu, i.memory_mb, i.image) = NoError

\* A request passes the name, spec and status validation of CreateInstance.
PassesValidation(req) ==
    /\ validateInstanceName(req.Name) = NoError
    /\ validateInstanceSpecs(req.CPU, req.MemoryMB, req.Image) = NoError
    /\ validateInstanceStatus(IF req.Status = "" THEN StatusRunning
                              ELSE req.Status) = NoError

\* C4: CreateInstance whose projectId names no existing project fails with
\* ForeignKeyViolation carrying resource = "project", never with NotFound,
\* and persists no instance: the instance store is unchanged.
C4_MissingProjectIsForeignKeyViolation ==
    [][rresp'.op = "CreateInstance" =>
          /\ rresp'.err.code # ErrorCodeNotFound
          /\ \A req \in CreateInstanceRequests :
                (PassesValidation(req)
                    /\ ~\E p \in projects : p.id = req.ProjectID) =>
                    LET chk == CreateInstanceCheck(projects, req) IN
                    /\ chk.err.code = ErrorCodeForeignKeyViolation
                    /\ chk.err.details.resource = "project"
                    /\ chk.err.details.value = req.ProjectID
                    /\ chk.instance = NoInstance
          /\ (/\ rresp'.err.code = ErrorCodeForeignKeyViolation
              /\ creating = NoCreate
              /\ creating' = NoCreate) =>
                /\ instances' = instances
                /\ rresp'.err.details.resource = "project"
                /\ ~\E p \in projects : p.id = rresp'.err.details.value]_vars

\* CreateInstance naming the deleted project p1 failed with a foreign key
\* violation while an instance of p1 is still stored.
C4_Witness ==
    /\ rresp.op = "CreateInstance"
    /\ rresp.err.code = ErrorCodeForeignKeyViolation
    /\ rresp.err.details.value = <<"p", "1">>
    /\ projects = {}
    /\ instances # {}

\* C5: whenever CreateInstance persists an instance, the owning project
\* exists in the project store at that moment, in every interleaving with
\* a concurrent DeleteProject.
C5_ProjectExistsAtInsert ==
    [][\A i \in instances' :
          (~\E j \in instances : j.id = i.id) =>
              \E p \in projects : p.id = i.project_id]_vars

\* C13 as stated: an UpdateInstance that fails validation has made no
\* persistence call, neither a read nor a write, and leaves the instance
\* store unchanged.
C13_NoPersistenceCallOnValidationFailure ==
    [][(rresp'.op = "UpdateInstance"
            /\ rresp'.err.code = ErrorCodeInvalidInput) =>
          /\ rresp'.calls = <<>>
          /\ instances' = instances]_vars

\* C13 as amended: an UpdateInstance that fails validation has made no
\* write to the instance store and leaves it unchanged; the one
\* persistence call it has made is the read of the current instance, which
\* happens exactly when cpu or memory is supplied and the name, if
\* supplied, is valid.
C13_NoWriteOnValidationFailure ==
    /\ [](\A id \in InstanceIds, req \in UpdateInstanceRequests :
            LET r == SvcUpdateInstance(instances, id, req) IN
            r.err.code = ErrorCodeInvalidInput =>
                /\ r.rows = instances
                /\ r.calls =
                      IF /\ req.CPU # None \/ req.MemoryMB # None
                         /\ req.Name # None =>
                                validateInstanceName(ValueOf(req.Name)) = NoError
                      THEN <<"instanceRepo.GetByID">>
                      ELSE <<>>)
    /\ [][(rresp'.op = "UpdateInstance"
                /\ rresp'.err.code = ErrorCodeInvalidInput) =>
              /\ instances' = instances
              /\ rresp'.calls \in {<<>>, <<"instanceRepo.GetByID">>}]_vars

\* An UpdateInstance of a stored instance failed validation after reading
\* the current instance.
C13_Witness ==
    /\ rresp.op = "UpdateInstance"
    /\ rresp.err.code = ErrorCodeInvalidInput
    /\ rresp.calls = <<"instanceRepo.GetByID">>
    /\ instances # {}

\* The update request that supplies the memory 99999999 and nothing else.
MemoryOnlyRequest ==
    [Name |-> None, CPU |-> None, MemoryMB |-> Some(99999999),
     Image |-> None, Status |-> None]

\* C14: an UpdateInstance of a stored instance that supplies cpu and/or
\* memory (with a valid name and status, where supplied) returns exactly
\* what validating the merged triple returns, the incoming fields overlaid
\* on the current cpu, memory and image, and persists that triple when it
\* is valid; for a stored cpu=4, memory=1024, image="x", supplying only
\* memory=99999999 fails InvalidInput on the memory bound.
C14_MergedValidation ==
    /\ \A i \in instances, req \in UpdateInstanceRequests :
            (/\ req.CPU # None \/ req.MemoryMB # None
             /\ req.Name # None =>
                    validateInstanceName(ValueOf(req.Name)) = NoError
             /\ req.Status # None =>
                    validateInstanceStatus(ValueOf(req.Status)) = NoError) =>
                LET cpu    == IF req.CPU # None THEN ValueOf(req.CPU) ELSE i.cpu
                    memory == IF req.MemoryMB # None THEN ValueOf(req.MemoryMB)
                              ELSE i.memory_mb
                    image  == IF req.Image # None THEN ValueOf(req.Image)
                              ELSE i.image
                    r      == SvcUpdateInstance(instances, i.id, req)
                IN  /\ r.err = validateInstanceSpecs(cpu, memory, image)
                    /\ r.err = NoError =>
                          \E j \in r.rows :
                              /\ j.id = i.id
                              /\ <<j.cpu, j.memory_mb, j.image>>
                                    = <<cpu, memory, image>>
                    /\ r.err # NoError => r.rows = instances
    /\ \A i \in instances :
            (i.cpu = 4 /\ i.memory_mb = 1024 /\ i.image = <<"x">>) =>
                SvcUpdateInstance(instances, i.id, MemoryOnlyRequest).err
                    = InvalidInputError("memory too high",
                                        [max_memory_mb |-> MaxMemoryMB,
                                         actual |-> 99999999])

\* An UpdateInstance of the stored instance cpu=4, memory=1024, image="x"
\* failed on the memory bound with 99999999 and left the instance as it was.
C14_Witness ==
    /\ rresp.op = "UpdateInstance"
    /\ rresp.err = InvalidInputError("memory too high",
                                     [max_memory_mb |-> MaxMemoryMB,
                                      actual |-> 99999999])
    /\ \E i \in instances :
            i.cpu = 4 /\ i.memory_mb = 1024 /\ i.image = <<"x">>

\* C15: every persisted instance has status exactly "running" or
\* "stopped" after any sequence of accepted CreateInstance and
\* UpdateInstance calls, and a CreateInstance with status unset persists
\* the status "running": the accepted request goes on to the insert with
\* status "running", and the insert persists the status it was handed.
C15_StatusIsRunningOrStopped ==
    /\ [](/\ \A i \in instances : i.status \in {"running", "stopped"}
          /\ \A req \in CreateInstanceRequests :
                (req.Status = "" /\ CreateInstanceCheck(projects, req).err = NoError)
                    => CreateInstanceCheck(projects, req).instance.status
                          = "running")
    /\ [][\A i \in instances' :
              (~\E j \in instances : j.id = i.id) =>
                  i.status = creating.status]_vars

\* A CreateInstance was accepted and its instance is stored with status
\* "running", which no modelled create request names: its status was unset.
C15_Witness ==
    /\ rresp.op = "CreateInstance"
    /\ rresp.err = NoError
    /\ instances # {}
    /\ \A i \in instances : i.status = "running"

\* C16: every persisted project name is non-empty, at most 255 characters
\* long and consists only of letters, digits, '-' and '_', after any
\* sequence of CreateProject and UpdateProject calls; a call with a name
\* violating this fails InvalidInput, makes no persistence call and leaves
\* the project store unchanged.
C16_ProjectNamesValid ==
    /\ [](/\ \A p \in projects :
                /\ p.name # <<>>
                /\ Len(p.name) <= 255
                /\ \A k \in 1..Len(p.name) : p.name[k] \in NamePatternChars
          /\ \A name \in NameInputs :
                (\/ name = <<>>
                 \/ Len(name) > 255
                 \/ \E k \in 1..Len(name) : name[k] \notin NamePatternChars)
                    => validateProjectName(name).code = ErrorCodeInvalidInput)
    /\ [][(rresp'.op \in {"CreateProject", "UpdateProject"}
                /\ rresp'.err.code = ErrorCodeInvalidInput) =>
              /\ rresp'.calls = <<>>
              /\ projects' = projects]_vars

\* An UpdateProject with a name of 256 characters was rejected while a
\* project with a name of 255 characters is stored.
C16_Witness ==
    /\ rresp.op = "UpdateProject"
    /\ rresp.err = InvalidInputError("project name too long",
                                     [max_length |-> 255, actual |-> 256])
    /\ \E p \in projects : Len(p.name) = 255

----------------------------------------------------------------------------
(* Claims about the error taxonomy and its propagation.                    *)

\* The eight kinds of the closed taxonomy.
ErrorKinds ==
    {"NOT_FOUND", "ALREADY_EXISTS", "INVALID_INPUT", "FOREIGN_KEY_VIOLATION",
     "INTERNAL_ERROR", "UNAUTHORIZED", "TOO_MANY_REQUESTS",
     "SERVICE_UNAVAILABLE"}

MetadataOps == {"SetMetadata", "GetMetadata", "ListMetadata", "DeleteMetadata"}

\* C17: every error returned by a service operation, failures of the
\* backing store included, is a structured error whose kind is one of the
\* eight kinds of the taxonomy; stated here for the metadata operations,
\* whose store is the SQLite repository of the source.
C17_ErrorsAreStructured ==
    (fail.op \in MetadataOps /\ fail.err # NoError) =>
        /\ IsDirtError(fail.err)
        /\ fail.err.code \in ErrorKinds

\* The status code the transport must answer a kind with.
StatusOfKind(kind) ==
    CASE kind = "NOT_FOUND" -> 404
      [] kind = "ALREADY_EXISTS" -> 409
      [] kind = "INVALID_INPUT" -> 400
      [] kind = "FOREIGN_KEY_VIOLATION" -> 400
      [] kind = "UNAUTHORIZED" -> 401
      [] kind = "TOO_MANY_REQUESTS" -> 429
      [] kind = "SERVICE_UNAVAILABLE" -> 503
      [] kind = "INTERNAL_ERROR" -> 500
      [] OTHER -> 500

\* C18: the transport's status code is a function of the error kind alone,
\* by the table of StatusOfKind, whatever the message and details, and the
\* body is the structured error itself; an error that is no structured
\* error is answered with 500 and an InternalError body carrying its text.
C18_StatusIsFunctionOfKind ==
    /\ \A kind \in ErrorKinds \cup {"TEAPOT"} :
       \A message \in {<<>>, <<"m">>} :
       \A details \in {NoDetails, [resource |-> "project"]} :
            writeError(NewError(kind, message, details))
                = [status |-> StatusOfKind(kind),
                   body |-> NewError(kind, message, details)]
    /\ \A e \in {DriverError,
                  Errorf("failed to set metadata: ", DriverError),
                  Errorf("lookup: ", NotFoundError("project", <<"p", "1">>))} :
            writeError(e) = [status |-> 500,
                             body |-> [code |-> "INTERNAL_ERROR",
                                       message |-> ErrorText(e),
                                       details |-> NoDetails]]
    /\ fail.err # NoError =>
            IF IsDirtError(fail.err)
            THEN fail.http = [status |-> StatusOfKind(fail.err.code),
                              body |-> fail.err]
            ELSE /\ fail.http.status = 500
                 /\ fail.http.body.code = "INTERNAL_ERROR"
                 /\ fail.http.body.message = ErrorText(fail.err)

\* A CreateInstance naming a missing project was answered with 400 and the
\* ForeignKeyViolation as body.
C18_Witness ==
    /\ fail.op = "CreateInstance"
    /\ IsDirtError(fail.err)
    /\ fail.err.code = "FOREIGN_KEY_VIOLATION"
    /\ fail.http.status = 400
    /\ fail.http.body = fail.err

\* C19: the only re-kinding in the service is project NotFound becoming
\* ForeignKeyViolation inside CreateInstance: every other error a
\* repository returns to a service operation is what the operation
\* returns, with the same kind, message and details.
C19_OnlyRekindingIsProjectLookup ==
    \A k \in 1..Len(fail.repoErrs) :
        fail.repoErrs[k] # NoError =>
            IF fail.op = "CreateInstance" /\ k = 1 /\ IsNotFound(fail.repoErrs[k])
            THEN fail.err = ForeignKeyViolationError("project", "id", fail.arg)
            ELSE fail.err = fail.repoErrs[k]

\* The project lookup of a CreateInstance failed with an InternalError,
\* which CreateInstance returned as it was.
C19_Witness ==
    /\ fail.op = "CreateInstance"
    /\ fail.repoErrs = <<InternalError(<<"database failure">>)>>
    /\ fail.err = InternalError(<<"database failure">>)

\* The repository call a metadata operation of the service makes.
MetadataCall(op) ==
    CASE op = "SetMetadata" -> "metadataRepo.Set"
      [] op = "GetMetadata" -> "metadataRepo.Get"
      [] op = "DeleteMetadata" -> "metadataRepo.Delete"

\* C20: SetMetadata, GetMetadata and DeleteMetadata reject the empty path
\* with InvalidInput before normalization and without calling the store,
\* which is left unchanged; every non-empty path, "/" and "." included,
\* is passed to the store, whose answer is returned.
C20_EmptyPathRejected ==
    /\ [](fail.op \in {"SetMetadata", "GetMetadata", "DeleteMetadata"} =>
            IF fail.arg = <<>>
            THEN /\ IsDirtError(fail.err)
                 /\ fail.err.code = "INVALID_INPUT"
                 /\ fail.calls = <<>>
            ELSE /\ fail.calls = <<MetadataCall(fail.op)>>
                 /\ fail.err = fail.repoErrs[1])
    /\ [][(fail'.op \in {"SetMetadata", "GetMetadata", "DeleteMetadata"}
                /\ fail'.arg = <<>>) => metadata' = metadata]_vars

\* GetMetadata("") was rejected although an entry is stored at the root,
\* the path the empty string normalises to.
C20_Witness ==
    /\ fail.op = "GetMetadata"
    /\ fail.arg = <<>>
    /\ fail.err = EmptyPathError
    /\ fail.calls = <<>>
    /\ \E r \in metadata : r.path = normalizePath(<<>>)

\* C21: ListMetadata applies the precondition of Set, Get and Delete: with
\* the empty string as prefix it fails with InvalidInput and does not
\* call the store.
C21_EmptyPrefixRejected ==
    (fail.op = "ListMetadata" /\ fail.arg = <<>>) =>
        /\ IsDirtError(fail.err)
        /\ fail.err.code = "INVALID_INPUT"
        /\ fail.calls = <<>>

----------------------------------------------------------------------------
(* Claims about the validators.                                            *)

\* C22: validateInstanceSpecs succeeds exactly when 1 <= cpu <= 64 and
\* 1 <= memory <= 524288 and the image is non-empty and at most 255 long,
\* and otherwise returns an InvalidInput error; cpu = 64 succeeds and
\* cpu = 65 fails with details max_cpu = 64, actual = 65.
C22_SpecsValidExactlyInRange ==
    validated.pc = "done" =>
        LET inRange == /\ 1 <= validated.cpu /\ validated.cpu <= 64
                       /\ 1 <= validated.memoryMB
                       /\ validated.memoryMB <= 524288
                       /\ validated.image # <<>>
                       /\ Len(validated.image) <= 255
        IN  /\ (validated.specsErr = NoError) <=> inRange
            /\ ~inRange => /\ IsDirtError(validated.specsErr)
                           /\ validated.specsErr.code = "INVALID_INPUT"
            /\ validated.cpu = 65 =>
                    validated.specsErr.details = [max_cpu |-> 64, actual |-> 65]
            /\ validateInstanceSpecs(64, validated.memoryMB, validated.image)
                    = validateInstanceSpecs(1, validated.memoryMB,
                                            validated.image)

\* cpu = 65 was rejected with both numbers, for a memory and an image that
\* cpu = 64 is accepted with.
C22_Witness ==
    /\ validated.pc = "done"
    /\ validated.cpu = 65
    /\ validated.specsErr.details = [max_cpu |-> 64, actual |-> 65]
    /\ validateInstanceSpecs(64, validated.memoryMB, validated.image) = NoError

\* The errors the validators returned for the inputs given.
ValidatorErrors ==
    {validated.projectNameErr, validated.instanceNameErr, validated.specsErr,
     validated.statusErr} \ {NoError}

\* The keys under which a detail map carries a limit.
LimitKeys == {"max_cpu", "min_cpu", "max_memory_mb", "min_memory_mb",
              "max_length", "min", "max", "limit"}

\* C23: every validator failure is one InvalidInput error whose detail map
\* names the offending field and the violated constraint and, for a
\* numeric violation (cpu or memory out of range, name or image too long),
\* carries both the limit and the actual value.
C23_FailuresCarryDetails ==
    validated.pc = "done" =>
        /\ \A e \in ValidatorErrors :
                /\ e.code = "INVALID_INPUT"
                /\ e.details # NoDetails
        /\ LET numeric == \/ validated.cpu < 1
                          \/ validated.cpu > 64
                          \/ validated.memoryMB < 1
                          \/ validated.memoryMB > 524288
           IN  numeric =>
                    /\ "actual" \in DOMAIN validated.specsErr.details
                    /\ DOMAIN validated.specsErr.details \cap LimitKeys # {}

----------------------------------------------------------------------------
(* Claims about deletion.                                                  *)

\* C24: DeleteProject and DeleteInstance pass straight through to
\* persistence.  DeleteProject makes the one call projectRepo.Delete, fails
\* only when the project is absent (instances that reference the project
\* do not block it), removes only that project and leaves every instance
\* unchanged, those it leaves dangling included; DeleteInstance makes the
\* one call instanceRepo.Delete and leaves the projects unchanged.
C24_DeletePassesThrough ==
    /\ [][(rresp'.op = "DeleteProject"
            /\ (rresp' # rresp \/ projects' # projects \/ instances' # instances))
          => /\ rresp'.calls = <<"projectRepo.Delete">>
             /\ instances' = instances
             /\ IF rresp'.err = NoError
                THEN \E p \in projects : projects' = projects \ {p}
                ELSE /\ projects' = projects
                     /\ \E id \in RequestProjectIds :
                            /\ rresp'.err = NotFoundError("project", id)
                            /\ ~\E p \in projects : p.id = id]_vars
    /\ [][(rresp'.op = "DeleteInstance"
            /\ (rresp' # rresp \/ projects' # projects \/ instances' # instances))
          => /\ rresp'.calls = <<"instanceRepo.Delete">>
             /\ projects' = projects
             /\ IF rresp'.err = NoError
                THEN \E i \in instances : instances' = instances \ {i}
                ELSE instances' = instances]_vars

\* A project was deleted while an instance referenced it: the delete
\* succeeded and the instance is still stored, naming a project that is
\* not.
C24_Witness ==
    /\ rresp.op = "DeleteProject"
    /\ rresp.err = NoError
    /\ \E i \in instances : ~\E p \in projects : p.id = i.project_id

----------------------------------------------------------------------------
(* Claims about concurrent callers of the metadata repository.             *)

\* The rows stored at a canonical path.
RowsAt(q) == {r \in metadata : r.path = q}

\* C25: concurrent Set calls to paths of one canonical form leave, in every
\* interleaving, exactly one entry at that canonical path, and it is the
\* entry (value and timestamp together) of the Set whose write committed
\* last: the table holds, per canonical path, exactly what the last
\* committed Set wrote, and when both callers have returned from
\* successful Sets to one canonical path the one entry there is the entry
\* of one of the two.
C25_LastWriteWins ==
    /\ \A r1, r2 \in metadata : r1.path = r2.path => r1 = r2
    /\ metadata = written
    /\ \A c1, c2 \in Callers :
        (/\ c1 # c2
         /\ callers[c1].pc = "done" /\ callers[c1].op = "Set"
         /\ callers[c1].err = NoError
         /\ callers[c2].pc = "done" /\ callers[c2].op = "Set"
         /\ callers[c2].err = NoError
         /\ normalizePath(callers[c1].path) = normalizePath(callers[c2].path))
        => /\ Cardinality(RowsAt(normalizePath(callers[c1].path))) = 1
           /\ RowsAt(normalizePath(callers[c1].path)) \subseteq
                {SetRow(callers[c].path, callers[c].value, callers[c].now) :
                    c \in {c1, c2}}

\* Two Sets overlapped on two spellings of one canonical path with
\* different values: the one that read the time first committed last, and
\* the entry is its value with its (earlier) timestamp.
C25_Witness ==
    /\ callers["c1"] = [CallIdle EXCEPT !.pc = "done", !.op = "Set",
                                        !.path = <<"a">>, !.value = "v1",
                                        !.now = 0]
    /\ callers["c2"] = [CallIdle EXCEPT !.pc = "done", !.op = "Set",
                                        !.path = <<"/", "a">>, !.value = "v2",
                                        !.now = 1]
    /\ metadata = {[path |-> <<"/", "a">>, value |-> "v1", updated_at |-> 0]}

----------------------------------------------------------------------------
(* Further claims about the metadata namespace.                            *)

\* C26: every List result is in ascending lexicographic order of path and
\* holds no path twice (each path is strictly less than the next), holds
\* only stored paths, and a filter that selects no entry yields the empty
\* result and no error.
C26_ListIsSorted ==
    mresp.op = "List" =>
        /\ mresp.err = NoError
        /\ \A i, j \in 1..Len(mresp.paths) :
                i < j => StrLess(mresp.paths[i], mresp.paths[j])
        /\ Range(mresp.paths) \subseteq {r.path : r \in metadata}
        /\ (/\ mresp.path # <<>>
            /\ \A r \in metadata :
                    ~Like(normalizePath(mresp.path) \o <<"%">>, r.path))
           => mresp.paths = <<>>

\* A List returned the two stored paths, the lesser first.
C26_Witness ==
    /\ mresp.op = "List"
    /\ Cardinality(metadata) = 2
    /\ Len(mresp.paths) = 2
    /\ StrLess(mresp.paths[1], mresp.paths[2])

----------------------------------------------------------------------------
(* Further claims about the resource lifecycle service.                    *)

\* The first failure of a create request's validation, in the order name,
\* spec, status (defaulted to running when unset), or NoError.
FirstValidationFailure(req) ==
    LET status == IF req.Status = "" THEN "running" ELSE req.Status
        errs   == <<validateInstanceName(req.Name),
                    validateInstanceSpecs(req.CPU, req.MemoryMB, req.Image),
                    validateInstanceStatus(status)>>
        failing == {k \in 1..3 : errs[k] # NoError}
    IN  IF failing = {} THEN NoError
        ELSE errs[CHOOSE k \in failing : \A l \in failing : k <= l]

\* C27: CreateInstance validates the name, then the spec, then the
\* (defaulted) status, then looks the project up, then generates the
\* identifier and persists, and stops at the first failure.  A request
\* that fails validation gets the first validation failure, an
\* InvalidInput, without a project lookup, also when its project is
\* missing; a valid request naming a missing project fails after the
\* lookup alone; an instance is inserted only by a request whose lookup
\* succeeded, after the lookup.
C27_CreateInstanceOrder ==
    /\ [](\A req \in CreateInstanceRequests :
            LET chk == CreateInstanceCheck(projects, req) IN
            IF FirstValidationFailure(req) # NoError
            THEN /\ chk.err = FirstValidationFailure(req)
                 /\ chk.err.code = "INVALID_INPUT"
                 /\ chk.calls = <<>>
            ELSE /\ chk.calls = <<"projectRepo.GetByID">>
                 /\ chk.err # NoError <=>
                        ~\E p \in projects : p.id = req.ProjectID)
    /\ [](rresp.op = "CreateInstance" =>
            CASE rresp.err = NoError ->
                    rresp.calls = <<"projectRepo.GetByID", "instanceRepo.Create">>
              [] rresp.err.code = "INVALID_INPUT" -> rresp.calls = <<>>
              [] OTHER -> rresp.calls = <<"projectRepo.GetByID">>)
    /\ [][(rresp'.op = "CreateInstance" /\ instances' # instances)
            => /\ creating # NoCreate
               /\ creating' = NoCreate
               /\ \E i \in instances' \ instances :
                    /\ i.id \notin {j.id : j \in instances}
                    /\ [i EXCEPT !.id = <<>>] = creating]_vars

\* A CreateInstance that was invalid and, the project table being empty,
\* named a missing project: it failed with InvalidInput and made no call.
C27_Witness ==
    /\ rresp.op = "CreateInstance"
    /\ rresp.err.code = "INVALID_INPUT"
    /\ rresp.calls = <<>>
    /\ projects = {}

----------------------------------------------------------------------------
(* Further claims about concurrent callers.                                *)

\* C28: in every interleaving of concurrent Deletes of one canonical path,
\* a Delete returns success only if its own removal step removed the
\* entry; a Delete whose removal step finds the entry gone reports
\* NotFound, so at most one of the concurrent Deletes succeeds.
C28_DeleteSucceedsOnlyIfItRemoved ==
    \A c \in Callers :
        (callers[c].pc = "done" /\ callers[c].op = "Delete") =>
            (callers[c].err = NoError => callers[c].removed)

----------------------------------------------------------------------------
(* Claims about the HTTP router.                                           *)

\* The Authorization header is "Bearer <token>", the scheme in any case.
ValidBearer(header, tok) ==
    \E scheme \in {<<"B", "e", "a", "r", "e", "r">>,
                   <<"b", "e", "a", "r", "e", "r">>} :
        header = scheme \o <<" ">> \o tok

\* C29: when a token is configured, a request without a valid
\* "Bearer <token>" Authorization header is answered with 401 Unauthorized
\* before any service operation is invoked, on every route of the router,
\* and changes no project, instance or metadata state.
C29_NoAccessWithoutToken ==
    /\ []((token # <<>> /\ served.route # "none"
                /\ ~ValidBearer(served.header, token))
            => /\ served.status = 401
               /\ served.ops = <<>>)
    /\ [][(token # <<>> /\ served' # served
                /\ ~ValidBearer(served'.header, token))
            => UNCHANGED <<projects, instances, metadata>>]_vars

----------------------------------------------------------------------------
(* Claims about what the metadata operations leave alone.                  *)

\* The entry a table holds at a canonical path: its rows there, with value
\* and timestamp.
EntryAt(rows, q) == {r \in rows : r.path = q}

\* C30: Set(p, v) and Delete(p) change only the entry at normalize(p): the
\* presence, value and timestamp of the entry at every other canonical
\* path are the same before and after each of their steps; Get and List
\* change nothing, and a Delete that fails changes nothing.
C30_OnlyTheNamedEntryChanges ==
    [][/\ \A q \in {r.path : r \in metadata \cup metadata'} :
            EntryAt(metadata', q) # EntryAt(metadata, q) =>
                \E c \in Callers :
                    /\ callers'[c] # callers[c]
                    /\ callers'[c].op \in {"Set", "Delete"}
                    /\ callers'[c].pc = "done"
                    /\ callers'[c].err = NoError
                    /\ normalizePath(callers'[c].path) = q
       /\ \A c \in Callers :
            (/\ callers'[c] # callers[c]
             /\ \/ callers'[c].op \in {"Get", "List"}
                \/ callers'[c].pc = "exec"
                \/ callers'[c].err # NoError)
            => metadata' = metadata]_vars

\* A Set to "a" at time 1 is stored with its value and time next to the
\* entry at "/_", which still has the value and the time 0 it was set
\* with.
C30_Witness ==
    /\ callers["c1"] = [CallIdle EXCEPT !.pc = "done", !.op = "Set",
                                        !.path = <<"a">>, !.value = "v2",
                                        !.now = 1]
    /\ callers["c2"].op = "Get"
    /\ metadata = {[path |-> <<"/", "a">>, value |-> "v2", updated_at |-> 1],
                   [path |-> <<"/", "_">>, value |-> "v1", updated_at |-> 0]}

============================================================================
